---------------------------- MODULE Spec2Model ----------------------------
(***************************************************************************)
(* A model of Wayback4AI: the retry boundaries (download_url_with_retry,   *)
(* get_wayback_metadata), the parallel download orchestrator               *)
(* (parallel_download_urls), the index client (CDXClient.search,           *)
(* iter_all, iter_pages, the parsing of responses), the aggregation of     *)
(* get_wayback_metadata and the archive URLs (build_archive_url,           *)
(* convert_to_id_url).                                                     *)
(*                                                                         *)
(* The specifications of the module:                                       *)
(*   SpecRetry  one call of a retry boundary, with a second run that sees  *)
(*              the same error kinds and other status codes                *)
(*   Spec       one call of parallel_download_urls                         *)
(*   SpecWorkers  the calls of parallel_download_urls with several workers *)
(*   SpecProxy  the proxies that parallel_download_urls gives to its tasks *)
(*   SpecIter   one run of the generator CDXClient.iter_all                *)
(*   SpecPages  one run of the generator CDXClient.iter_pages              *)
(*   SpecSearch one call of CDXClient.search                               *)
(*   SpecParse  CDXClient._parse_response applied to a response body       *)
(*   SpecMeta   calls of get_wayback_metadata in a row                     *)
(*   SpecUrl    one call of convert_to_id_url                              *)
(*   SpecProgress  parallel_download_urls with its progress bar            *)
(*   SpecRetryLive one call of a retry boundary, its steps ending          *)
(*   SpecQuery  builder calls on one CDXQuery, then build_params           *)
(*   SpecLive   parallel_download_urls, every enabled step taken in the end*)
(***************************************************************************)
EXTENDS Integers, Sequences, FiniteSets, TLC

VARIABLES
    \* ---- the retry boundary (SpecRetry)
    boundary,        \* which decorated function is called
    rpc,             \* "attempt" | "sleep" | "returned" | "raised"
    attempt_number,  \* tenacity's retry_state.attempt_number
    outcome,         \* retry_state.outcome of the last attempt
    calls,           \* how many times the wrapped function was invoked
    failures,        \* how many of these invocations raised
    waits,           \* the backoff waits performed so far, in order
    final,           \* what the caller of the boundary receives
    fetched,         \* the last result of the fetch primitive (crawler.arun)
    \* ---- the second run of the same boundary (same kinds, other statuses)
    rpc2, attempt_number2, outcome2, calls2, waits2, final2,
    \* ---- parallel_download_urls (Spec)
    urls,            \* the input list
    n_jobs,          \* the worker count
    proxies,         \* the proxies argument
    tasks,           \* [(i, url, proxy)] built at line 401
    queue,           \* indices of the tasks not yet dispatched, in order
    running,         \* the tasks a worker of the pool is executing
    trun,            \* task -> its retry state
    ndone,           \* how many tasks have completed
    inverted,        \* some task completed before a task given earlier
    results,         \* the list the call returns
    ppc,             \* "running" | "returned" | "raised"
    \* ---- CDXClient.iter_all (SpecIter)
    batch_size,      \* the batch_size argument
    fl,              \* the field selection passed through **kwargs
    ipc,             \* "search" | "batch" | "done" | "raised"
    resume_key,      \* the local resume_key ("" for None)
    response,        \* the CDXResponse of the last search
    pos,             \* how many records of `response` have been yielded
    yielded,         \* every record yielded so far, in order
    searches,        \* the parameters of every search issued, in order
    history,         \* the responses received, in order
    service,         \* what the service holds for each call: [n data rows, key]
    consumer,        \* the caller of the generator: "idle" | "waiting" | "stopped"
    nexts,           \* how many times the caller has asked for a record (next())
    \* ---- CDXClient._parse_response (SpecParse)
    body,            \* the response body and the parameters of its request
    parsed,          \* the CDXResponse made of it
    \* ---- CDXClient.search (SpecSearch)
    sargs,           \* the arguments of the call
    params,          \* the params dict, as its (key, value) items in order
    query_params,    \* the list given to urlencode
    gets,            \* how many times session.get was called
    http,            \* what session.get met
    spc,             \* "call" | "sent" | "returned" | "raised"
    sout,            \* what the caller of search receives
    \* ---- CDXClient.iter_pages (SpecPages)
    pgargs,          \* page_size and the match_type of **kwargs
    num_pages,       \* the local num_pages
    page_num,        \* the next value of the loop variable
    pgpc,            \* "count" | "loop" | "done" | "raised"
    pglog,           \* the requests issued, in order
    pgyielded,       \* the responses yielded, in order
    \* ---- get_wayback_metadata (SpecMeta)
    murl,            \* the url argument of the call
    mattempt,        \* the attempt number of the call in progress
    mcalls,          \* how many calls have been made
    mpc,             \* "attempt" | "returned" | "raised"
    mresp,           \* the CDXResponse of the search that succeeded
    result,          \* the dictionary the last completed call returned
    mearlier,        \* a call before that one returned some snapshots
    \* ---- the proxies given to the tasks (SpecProxy)
    passed,          \* the proxy each _download_one passed on, in order
    \* ---- build_archive_url and convert_to_id_url (SpecUrl)
    built,           \* what the input was put together from
    wayback_url,     \* the argument of convert_to_id_url, character by character
    id_url,          \* what the caller of convert_to_id_url receives
    upc,             \* "call" | "returned" | "raised" | "again"
    id_again,        \* what a second call, given the result of the first, returns
    \* ---- the progress bar of parallel_download_urls (SpecProgress)
    progress,        \* show_progress_bar, and whether tqdm could be imported
    pstate,          \* task -> "queued" | "fetch" | "update" | "done"
    pupdates,        \* task -> how many times its worker called pbar.update(1)
    pbar,            \* pbar.n, the counter of the progress bar (None: no bar)
    presults,        \* task -> what the worker function returned
    \* ---- the CDXQuery builder (SpecQuery)
    qparams,         \* self.params of the query: key -> value
    qcalls,          \* the builder calls made on the query, in order
    qbuilt,          \* what build_params returned
    qpc              \* "build" | "built"

retryVars == <<boundary, rpc, attempt_number, outcome, calls, failures, waits, final,
               fetched,
               rpc2, attempt_number2, outcome2, calls2, waits2, final2>>
poolVars  == <<urls, n_jobs, proxies, tasks, queue, running, trun, ndone, inverted,
               results, ppc>>
iterVars  == <<batch_size, fl, ipc, resume_key, response, pos, yielded, searches,
               history, service, consumer, nexts>>
parseVars == <<body, parsed>>
searchVars == <<sargs, params, query_params, gets, http, spc, sout>>
pagesVars == <<pgargs, num_pages, page_num, pgpc, pglog, pgyielded>>
metaVars  == <<murl, mattempt, mcalls, mpc, mresp, result, mearlier>>
proxyVars == <<passed>>
urlVars   == <<built, wayback_url, id_url, upc, id_again>>
progressVars == <<progress, pstate, pupdates, pbar, presults>>
queryVars == <<qparams, qcalls, qbuilt, qpc>>
toolVars  == <<urlVars, progressVars, queryVars>>
clientVars == <<searchVars, pagesVars, metaVars, proxyVars, toolVars>>
vars      == <<retryVars, poolVars, iterVars, parseVars, clientVars>>

Max(a, b) == IF a >= b THEN a ELSE b
Min(a, b) == IF a <= b THEN a ELSE b

RECURSIVE Pow(_, _)
Pow(b, e) == IF e = 0 THEN 1 ELSE b * Pow(b, e - 1)

\* Python's None where an int is expected (Optional[int]).
None == -1

\* Python's `x or d` on an Optional[int]: None and 0 are falsy.
OrElse(x, d) == IF x = None \/ x = 0 THEN d ELSE x

(***************************************************************************)
(* Exception kinds and isinstance.                                         *)
(***************************************************************************)
ExcKinds == {"CrawlError", "OSError", "TimeoutError", "ConnectionError",
             "asyncio.TimeoutError", "RuntimeError", "ValueError", "ImportError",
             "CDXError", "RequestException", "RetryError", "KeyError",
             "CancelledError", "KeyboardInterrupt", "Exception", "BaseException"}

\* The direct base class of each kind.
BaseOf(k) ==
    CASE k = "TimeoutError"      -> "OSError"
      [] k = "ConnectionError"   -> "OSError"
      [] k = "RequestException"  -> "OSError"
      [] k = "CancelledError"    -> "BaseException"
      [] k = "KeyboardInterrupt" -> "BaseException"
      [] k = "Exception"         -> "BaseException"
      [] k = "BaseException"     -> "BaseException"
      [] OTHER                   -> "Exception"

RECURSIVE IsInstance(_, _)
IsInstance(k, cls) ==
    IF k = cls THEN TRUE
    ELSE IF k = "BaseException" THEN FALSE
    ELSE IsInstance(BaseOf(k), cls)

(***************************************************************************)
(* Outcomes of one call: exc = "none" is a returned response. A response   *)
(* is represented by its status_code; `response` is None when an error     *)
(* carries no response. `attempt` names the call that produced it.         *)
(***************************************************************************)
Returned(status)          == [exc |-> "none", status_code |-> status, response |-> status]
Raised(kind, status, rsp) == [exc |-> kind, status_code |-> status, response |-> rsp]

\* _Crawl4AIResponse.__init__: self.status_code = status_code or 0
Crawl4AIResponse(status_code) == OrElse(status_code, 0)

\* _Crawl4AIResponse.raise_for_status, followed by `return response`
CrawlErrorOnStatusDropped(rsp) == Returned(rsp)
raise_for_status(rsp) ==
    IF 400 <= rsp /\ rsp < 600
    THEN Raised("CrawlError", rsp, rsp)
    ELSE Returned(rsp)

\* _crawl_url_async on the result r of crawler.arun (or the error it raised)
crawl_url_async(r) ==
    IF r.raises # "none" THEN Raised(r.raises, None, None)
    ELSE IF ~r.success
         THEN Raised("CrawlError", r.status_code,
                     Crawl4AIResponse(OrElse(r.status_code, 0)))
         ELSE raise_for_status(Crawl4AIResponse(OrElse(r.status_code, 200)))

\* download_url: one attempt, no retry
download_url(r) == crawl_url_async(r)


(***************************************************************************)
(* The index client's request, as far as the retry boundary sees it.       *)
(***************************************************************************)
\* requests.Response.__bool__ is Response.ok: False for a 4xx/5xx status
ResponseBool(status) == ~(400 <= status /\ status < 600)

\* CDXClient._make_request: the try/except around session.get + raise_for_status
MakeRequestUncaught(h) ==
    IF h.raises # "none" THEN Raised(h.raises, None, None)
    ELSE IF 400 <= h.status_code /\ h.status_code < 600
         THEN Raised("CDXError",
                     IF ResponseBool(h.status_code) THEN h.status_code ELSE None,
                     None)
         ELSE Returned(h.status_code)
make_request(h) ==
    IF h.raises = "RequestException" THEN Raised("CDXError", None, None)
    ELSE IF h.raises # "none" THEN Raised(h.raises, None, None)
    ELSE IF 400 <= h.status_code /\ h.status_code < 600
         THEN Raised("CDXError",
                     IF ResponseBool(h.status_code) THEN h.status_code ELSE None,
                     None)
         ELSE Returned(h.status_code)

\* the text of an answer: a JSON array, text that json.loads rejects, a
\* non-empty JSON object, or nothing but whitespace
BodyTexts == {"array", "garbage", "object", "empty"}

\* what _parse_response raises on the text ("none": it returns a CDXResponse)
parse_raises(text, is_json) ==
    IF text = "empty" THEN "none"
    ELSE IF ~is_json THEN "none"
    ELSE IF text = "garbage" THEN "CDXError"
    ELSE IF text = "object" THEN "KeyError"
    ELSE "none"

\* CDXClient._execute_request: the request, then the parse
execute_request(h, is_json) ==
    LET rsp == make_request(h) IN
    IF rsp.exc # "none" THEN rsp
    ELSE IF parse_raises(h.text, is_json) # "none"
         THEN Raised(parse_raises(h.text, is_json), None, None)
         ELSE rsp

(***************************************************************************)
(* The retry boundaries: tenacity's @retry with stop_after_attempt,        *)
(* wait_exponential and retry_if_exception_type, reraise left at False.    *)
(***************************************************************************)
Boundaries == {"download_url_with_retry", "get_wayback_metadata"}

DEFAULT_RETRY_ATTEMPTS   == 6
DEFAULT_RETRY_MULTIPLIER == 2
DEFAULT_RETRY_MIN_WAIT   == 3
DEFAULT_RETRY_MAX_WAIT   == 60

WB_DEFAULT_RETRY_ATTEMPTS   == 3
WB_DEFAULT_RETRY_MULTIPLIER == 2
WB_DEFAULT_RETRY_MIN_WAIT   == 10
WB_DEFAULT_RETRY_MAX_WAIT   == 60

RetryAttempts(b) ==
    IF b = "download_url_with_retry" THEN DEFAULT_RETRY_ATTEMPTS
    ELSE WB_DEFAULT_RETRY_ATTEMPTS
RetryMultiplier(b) ==
    IF b = "download_url_with_retry" THEN DEFAULT_RETRY_MULTIPLIER
    ELSE WB_DEFAULT_RETRY_MULTIPLIER
RetryMinWait(b) ==
    IF b = "download_url_with_retry" THEN DEFAULT_RETRY_MIN_WAIT
    ELSE WB_DEFAULT_RETRY_MIN_WAIT
RetryMaxWait(b) ==
    IF b = "download_url_with_retry" THEN DEFAULT_RETRY_MAX_WAIT
    ELSE WB_DEFAULT_RETRY_MAX_WAIT

\* the tuple given to retry_if_exception_type
RetryTypesAndValueError(b) ==
    IF b = "download_url_with_retry"
    THEN {"CrawlError", "OSError", "TimeoutError", "ConnectionError",
          "asyncio.TimeoutError", "RuntimeError", "ValueError"}
    ELSE {"CDXError", "RequestException", "ValueError"}
RetryTypes(b) ==
    IF b = "download_url_with_retry"
    THEN {"CrawlError", "OSError", "TimeoutError", "ConnectionError",
          "asyncio.TimeoutError", "RuntimeError"}
    ELSE {"CDXError", "RequestException"}

\* retry=retry_if_exception_type(...): true iff the attempt raised one of the types
RetryOnAnyException(b, o) == o.exc # "none"
RetryOnServerStatus(b, o) ==
    /\ o.exc # "none"
    /\ \E t \in RetryTypes(b) : IsInstance(o.exc, t)
    /\ (o.exc = "CrawlError" => o.status_code >= 500)
ShouldRetry(b, o) ==
    /\ o.exc # "none"
    /\ \E t \in RetryTypes(b) : IsInstance(o.exc, t)

\* stop=stop_after_attempt(n)
StopAfterOneMore(b, n) == n > RetryAttempts(b)
StopBeforeLast(b, n) == n >= RetryAttempts(b) - 1
StopAfterAttempt(b, n) == n >= RetryAttempts(b)

\* wait=wait_exponential(multiplier, min, max), exp_base 2:
\* max(max(0, min), min(multiplier * 2 ** (attempt_number - 1), max))
WaitUnclamped(b, n) == RetryMultiplier(b) * Pow(2, n - 1)
WaitFromSecondPower(b, n) ==
    Max(Max(0, RetryMinWait(b)),
        Min(RetryMultiplier(b) * Pow(2, n), RetryMaxWait(b)))
WaitExponential(b, n) ==
    Max(Max(0, RetryMinWait(b)),
        Min(RetryMultiplier(b) * Pow(2, n - 1), RetryMaxWait(b)))

\* tenacity's RetryError(last_attempt): it has no status_code of its own
RetryError(o) == Raised("RetryError", None, None)

\* What the caller receives when the attempts are exhausted (reraise=False).
Exhausted(o) == RetryError(o)

\* Retrying.iter after attempt n gave outcome o: return, raise or sleep
RetryIter(b, n, o) ==
    IF ~ShouldRetry(b, o)
    THEN [do |-> IF o.exc = "none" THEN "returned" ELSE "raised", value |-> o]
    ELSE IF StopAfterAttempt(b, n)
         THEN [do |-> "raised", value |-> Exhausted(o)]
         ELSE [do |-> "sleep", value |-> o]

\* ---- what the wrapped function can meet
StatusCodes == {None, 0, 200, 399, 400, 404, 503, 599, 600}
ArunRaises  == {"RuntimeError", "TimeoutError", "asyncio.TimeoutError", "OSError",
                "ConnectionError", "ValueError", "ImportError", "CancelledError",
                "KeyboardInterrupt"}
CrawlResults ==
    [raises : {"none"}, success : BOOLEAN, status_code : StatusCodes]
    \cup [raises : ArunRaises, success : {FALSE}, status_code : {None}]
HttpRaises  == {"RequestException", "ValueError", "CancelledError", "KeyboardInterrupt"}
HttpResults ==
    [raises : {"none"}, status_code : {200, 404, 429, 503}, text : BodyTexts]
    \cup [raises : HttpRaises, status_code : {None}, text : {"empty"}]

Inputs(b) == IF b = "download_url_with_retry" THEN CrawlResults ELSE HttpResults

\* the body of the decorated function on what the network gave
Wrapped(b, r) ==
    IF b = "download_url_with_retry" THEN download_url(r) ELSE execute_request(r, TRUE)

Pending == [exc |-> "pending", status_code |-> None, response |-> None, attempt |-> 0]
Tag(o, n) == [exc |-> o.exc, status_code |-> o.status_code,
              response |-> o.response, attempt |-> n]

RetryIdle ==
    /\ boundary = "none" /\ rpc = "idle" /\ attempt_number = 0 /\ outcome = Pending
    /\ calls = 0 /\ failures = 0 /\ waits = <<>> /\ final = Pending /\ fetched = Pending
    /\ rpc2 = "idle" /\ attempt_number2 = 0 /\ outcome2 = Pending
    /\ calls2 = 0 /\ waits2 = <<>> /\ final2 = Pending
PoolIdle ==
    /\ urls = <<>> /\ n_jobs = 0 /\ proxies = <<>> /\ tasks = <<>> /\ queue = <<>> /\ running = {}
    /\ trun = <<>> /\ ndone = 0 /\ inverted = FALSE /\ results = <<>> /\ ppc = "idle"
IterIdle ==
    /\ batch_size = 0 /\ fl = <<>> /\ ipc = "idle" /\ resume_key = ""
    /\ response = <<>> /\ pos = 0 /\ yielded = <<>> /\ searches = <<>>
    /\ history = <<>> /\ service = <<>> /\ consumer = "none" /\ nexts = 0
ParseIdle ==
    /\ body = <<>> /\ parsed = <<>>
SearchIdle ==
    /\ sargs = <<>> /\ params = <<>> /\ query_params = <<>> /\ gets = 0
    /\ http = <<>> /\ spc = "idle" /\ sout = Pending
PagesIdle ==
    /\ pgargs = <<>> /\ num_pages = 0 /\ page_num = 0 /\ pgpc = "idle"
    /\ pglog = <<>> /\ pgyielded = <<>>
MetaIdle ==
    /\ murl = <<>> /\ mattempt = 0 /\ mcalls = 0 /\ mpc = "idle"
    /\ mresp = <<>> /\ result = <<>> /\ mearlier = FALSE
UrlIdle ==
    /\ built = <<>> /\ wayback_url = <<>> /\ id_url = Pending /\ upc = "idle"
    /\ id_again = Pending
ProgressIdle ==
    /\ progress = <<>> /\ pstate = <<>> /\ pupdates = <<>> /\ pbar = None
    /\ presults = <<>>
ProxyIdle ==
    /\ passed = <<>>
QueryIdle ==
    /\ qparams = <<>> /\ qcalls = <<>> /\ qbuilt = <<>> /\ qpc = "idle"
ToolIdle ==
    /\ UrlIdle /\ ProgressIdle /\ QueryIdle
ClientIdle == SearchIdle /\ PagesIdle /\ MetaIdle /\ ProxyIdle /\ ToolIdle

InitRetry ==
    /\ boundary \in Boundaries
    /\ rpc = "attempt" /\ attempt_number = 1 /\ outcome = Pending
    /\ calls = 0 /\ failures = 0 /\ waits = <<>> /\ final = Pending /\ fetched = Pending
    /\ rpc2 = "attempt" /\ attempt_number2 = 1 /\ outcome2 = Pending
    /\ calls2 = 0 /\ waits2 = <<>> /\ final2 = Pending
    /\ PoolIdle /\ IterIdle /\ ParseIdle /\ ClientIdle

\* two network results that differ at most in the status code they carry and
\* lead to the same kind of outcome
SameKind(b, r, r2) ==
    /\ r2.raises = r.raises
    /\ Wrapped(b, r2).exc = Wrapped(b, r).exc

\* One attempt of the wrapped function and tenacity's decision on its outcome;
\* the second run makes its own attempt in the same step.
RetryStep(r, r2) ==
    /\ rpc = "attempt"
    /\ SameKind(boundary, r, r2)
    /\ LET o  == Tag(Wrapped(boundary, r), calls + 1)
           d  == RetryIter(boundary, attempt_number, o)
           o2 == Tag(Wrapped(boundary, r2), calls2 + 1)
           d2 == RetryIter(boundary, attempt_number2, o2)
       IN /\ fetched' = r
          /\ outcome' = o
          /\ calls' = calls + 1
          /\ failures' = IF o.exc = "none" THEN failures ELSE failures + 1
          /\ rpc' = d.do
          /\ final' = IF d.do = "sleep" THEN final
                      ELSE Tag(d.value, IF d.value.exc = "RetryError" THEN 0 ELSE o.attempt)
          /\ IF rpc2 = "attempt"
             THEN /\ outcome2' = o2
                  /\ calls2' = calls2 + 1
                  /\ rpc2' = d2.do
                  /\ final2' = IF d2.do = "sleep" THEN final2
                               ELSE Tag(d2.value, IF d2.value.exc = "RetryError" THEN 0 ELSE o2.attempt)
             ELSE UNCHANGED <<outcome2, calls2, rpc2, final2>>
    /\ UNCHANGED <<boundary, attempt_number, waits, attempt_number2, waits2>>
    /\ UNCHANGED <<poolVars, iterVars, parseVars, clientVars>>

RetryCall ==
    \E r \in Inputs(boundary), r2 \in Inputs(boundary) : RetryStep(r, r2)

\* the same, both runs meeting the same result
RetryCallSame ==
    \E r \in Inputs(boundary) : RetryStep(r, r)

\* DoSleep: prepare_for_next_attempt, then the backoff wait
RetrySleep ==
    /\ rpc = "sleep"
    /\ waits' = Append(waits, WaitExponential(boundary, attempt_number))
    /\ attempt_number' = attempt_number + 1
    /\ rpc' = "attempt"
    /\ IF rpc2 = "sleep"
       THEN /\ waits2' = Append(waits2, WaitExponential(boundary, attempt_number2))
            /\ attempt_number2' = attempt_number2 + 1
            /\ rpc2' = "attempt"
       ELSE UNCHANGED <<waits2, attempt_number2, rpc2>>
    /\ UNCHANGED <<boundary, outcome, calls, failures, final, fetched,
                   outcome2, calls2, final2>>
    /\ UNCHANGED <<poolVars, iterVars, parseVars, clientVars>>

NextRetry == RetryCall \/ RetrySleep

SpecRetry == InitRetry /\ [][NextRetry]_vars

\* an attempt ends (the fetch has a timeout) and a backoff wait ends
NextRetryLive == RetryCallSame \/ RetrySleep

SpecRetryLive == InitRetry /\ [][NextRetryLive]_vars /\ WF_vars(NextRetryLive)

(***************************************************************************)
(* parallel_download_urls: joblib's Parallel(n_jobs, backend='threading')  *)
(* over _download_one, which wraps download_url_with_retry in try/except.  *)
(***************************************************************************)
MaxUrls == 3
MaxJobs == 2

UrlPool   == <<"https://a/", "https://b/", "https://a/", "https://c/", "https://b/">>
ProxyArgs == {[given |-> FALSE, pool |-> <<>>],
              [given |-> TRUE,  pool |-> <<"p1", "p2">>]}
NoProxy   == "None"

\* the elements of a proxy list that are strings, not ProxyConfig objects
ProxyStrings == {"203.0.113.7:8080", "203.0.113.7"}

\* ProxyConfig.from_string: a "host:port" string gives a ProxyConfig; a string
\* that has neither two nor four ':'-separated parts raises ValueError
InvalidProxy == "ValueError"
from_string(item) ==
    IF item = "203.0.113.7:8080" THEN "ProxyConfig(http://203.0.113.7:8080)"
    ELSE InvalidProxy

\* _resolve_proxy(proxy, index) for None or an in-memory list, crawl4ai being
\* importable (ProxyConfig is not None)
ResolveFirstProxy(p, index) ==
    IF ~p.given THEN NoProxy
    ELSE IF p.pool = <<>> THEN NoProxy
    ELSE p.pool[1]
resolve_proxy(p, index) ==
    IF ~p.given THEN NoProxy
    ELSE IF p.pool = <<>> THEN NoProxy
    ELSE LET item == p.pool[(index % Len(p.pool)) + 1] IN
         IF item \in ProxyStrings THEN from_string(item) ELSE item

\* tasks = [(i, url, _resolve_proxy(proxies, i)) for i, url in enumerate(urls)]
\* (task numbers are 1-based here, the index i of the code is idx - 1)
BuildTasks(us, p) ==
    [k \in 1..Len(us) |-> [idx |-> k, url |-> us[k], proxy |-> resolve_proxy(p, k - 1)]]

\* what the fetch primitive does in one attempt of one task
PoolInputs ==
    {[raises |-> "none", success |-> TRUE, status_code |-> 200],
     [raises |-> "none", success |-> TRUE, status_code |-> 503],
     [raises |-> "TimeoutError", success |-> FALSE, status_code |-> None],
     [raises |-> "ValueError", success |-> FALSE, status_code |-> None],
     [raises |-> "KeyboardInterrupt", success |-> FALSE, status_code |-> None]}

\* the values of the result list
PendingSlot == [kind |-> "pending", task |-> 0, url |-> "", status_code |-> None]
NoneResult  == [kind |-> "None", task |-> 0, url |-> "", status_code |-> None]
ResponseOf(t, o) ==
    [kind |-> "response", task |-> t.idx, url |-> t.url, status_code |-> o.status_code]
Propagated(o) == [kind |-> "raise", task |-> 0, url |-> o.exc, status_code |-> None]

\* _download_one(task), given what download_url_with_retry returned or raised:
\* `except Exception: return None`
DownloadOneNoCatch(t, f) ==
    IF f.exc = "none" THEN ResponseOf(t, f) ELSE Propagated(f)
DownloadOneCatchesRetryError(t, f) ==
    IF f.exc = "none" THEN ResponseOf(t, f)
    ELSE IF f.exc = "RetryError" THEN NoneResult
    ELSE Propagated(f)
DownloadOne(t, f) ==
    IF f.exc = "none" THEN ResponseOf(t, f)
    ELSE IF IsInstance(f.exc, "Exception") THEN NoneResult
    ELSE Propagated(f)

\* Parallel(...)(...) returns its outputs in the order of the tasks it was
\* given: the output of the task idx is element idx, whenever it completed.
SlotByCompletion(idx, completed) == completed + 1
ResultSlot(idx, completed) == idx

NotStarted == [pc |-> "pending", attempt_number |-> 0, calls |-> 0, waits |-> <<>>,
               final |-> "pending", value |-> PendingSlot]

Init ==
    /\ \E n \in 0..MaxUrls : urls = SubSeq(UrlPool, 1, n)
    /\ n_jobs \in 1..MaxJobs
    /\ proxies \in ProxyArgs
    /\ tasks = BuildTasks(urls, proxies)
    /\ queue = [k \in 1..Len(urls) |-> k]
    /\ running = {}
    /\ trun = [k \in 1..Len(urls) |-> NotStarted]
    /\ ndone = 0
    /\ inverted = FALSE
    /\ results = [k \in 1..Len(urls) |-> PendingSlot]
    /\ ppc = "running"
    /\ RetryIdle /\ IterIdle /\ ParseIdle /\ ClientIdle

\* Parallel(n_jobs=n_jobs, backend='threading'): a pool of n_jobs threads; a
\* thread is free when it executes no task, whatever the other threads do
WorkerAlwaysFree == TRUE
WorkerFreeUnlessSleeping ==
    /\ Cardinality(running) < n_jobs
    /\ \A k \in running : trun[k].pc # "sleep"
WorkerFree == Cardinality(running) < n_jobs

\* a free worker of the pool (there are n_jobs) takes the next task of the
\* queue and enters download_url_with_retry
Dispatch ==
    /\ ppc = "running"
    /\ WorkerFree
    /\ queue # <<>>
    /\ running' = running \cup {Head(queue)}
    /\ queue' = Tail(queue)
    /\ trun' = [trun EXCEPT ![Head(queue)] =
                    [NotStarted EXCEPT !.pc = "attempt", !.attempt_number = 1]]
    /\ UNCHANGED <<urls, n_jobs, proxies, tasks, ndone, inverted, results, ppc>>
    /\ UNCHANGED <<retryVars, iterVars, parseVars, clientVars>>

\* one attempt of the running task k; when the retry boundary ends, _download_one
\* returns (or lets the error through) and Parallel records the output
Attempt(k) ==
    /\ ppc = "running"
    /\ trun[k].pc = "attempt"
    /\ \E r \in PoolInputs :
        LET s == trun[k]
            o == download_url(r)
            d == RetryIter("download_url_with_retry", s.attempt_number, o)
            v == DownloadOne(tasks[k], d.value)
        IN IF d.do = "sleep"
           THEN /\ trun' = [trun EXCEPT ![k] = [s EXCEPT !.pc = "sleep",
                                                         !.calls = s.calls + 1]]
                /\ UNCHANGED <<running, ndone, inverted, results, ppc>>
           ELSE /\ trun' = [trun EXCEPT ![k] = [s EXCEPT !.pc = "done",
                                                         !.calls = s.calls + 1,
                                                         !.final = d.value.exc,
                                                         !.value = v]]
                /\ running' = running \ {k}
                /\ ndone' = ndone + 1
                /\ inverted' = (inverted \/ \E j \in 1..(k - 1) : trun[j].pc # "done")
                /\ IF v.kind = "raise"
                   THEN /\ ppc' = "raised"
                        /\ UNCHANGED results
                   ELSE /\ results' = [results EXCEPT ![ResultSlot(k, ndone)] = v]
                        /\ UNCHANGED ppc
    /\ UNCHANGED <<urls, n_jobs, proxies, tasks, queue>>
    /\ UNCHANGED <<retryVars, iterVars, parseVars, clientVars>>

\* the backoff wait of the running task k: only its worker sleeps
SleepForever(k) ==
    /\ ppc = "running"
    /\ trun[k].pc = "sleep"
    /\ UNCHANGED vars
Sleep(k) ==
    /\ ppc = "running"
    /\ trun[k].pc = "sleep"
    /\ LET s == trun[k]
       IN trun' = [trun EXCEPT ![k] =
                     [s EXCEPT !.pc = "attempt",
                               !.attempt_number = s.attempt_number + 1,
                               !.waits = Append(s.waits,
                                   WaitExponential("download_url_with_retry",
                                                   s.attempt_number))]]
    /\ UNCHANGED <<urls, n_jobs, proxies, tasks, queue, running, ndone, inverted,
                   results, ppc>>
    /\ UNCHANGED <<retryVars, iterVars, parseVars, clientVars>>

\* every task has completed: `return results`
Return ==
    /\ ppc = "running"
    /\ queue = <<>>
    /\ running = {}
    /\ ppc' = "returned"
    /\ UNCHANGED <<urls, n_jobs, proxies, tasks, queue, running, trun, ndone, inverted,
                   results>>
    /\ UNCHANGED <<retryVars, iterVars, parseVars, clientVars>>

Next ==
    \/ Dispatch
    \/ \E k \in running : Attempt(k)
    \/ \E k \in running : Sleep(k)
    \/ Return

Spec == Init /\ [][Next]_vars

\* the calls with several workers and no proxy
InitWorkers ==
    /\ Init
    /\ n_jobs >= 2
    /\ ~proxies.given

SpecWorkers == InitWorkers /\ [][Next]_vars

\* the calls in which every step that can be taken is taken in the end: a
\* thread of the pool that is free takes the next task, an attempt of the
\* fetch ends, a backoff sleep ends, and Parallel returns when all is done
MaxLiveUrls == 2
InitLive ==
    /\ Init
    /\ Len(urls) <= MaxLiveUrls
    /\ ~proxies.given

SpecLive == InitLive /\ [][Next]_vars /\ WF_vars(Next)

(***************************************************************************)
(* parallel_download_urls, as far as the proxies go: the task list, and    *)
(* the proxy that each _download_one hands to download_url_with_retry.     *)
(***************************************************************************)
MaxTasks == 5
MaxPool  == 3

ProxyItems == {"p1", "p2", "203.0.113.7:8080", "203.0.113.7"}

\* proxies: None, the empty list, or a list of ProxyConfig objects and strings
ProxyLists ==
    {[given |-> FALSE, pool |-> <<>>]}
    \cup {[given |-> TRUE, pool |-> pl] :
             pl \in UNION {[1..n -> ProxyItems] : n \in 0..MaxPool}}

InitProxy ==
    /\ \E n \in 0..MaxTasks :
          urls = [k \in 1..n |-> UrlPool[((k - 1) % Len(UrlPool)) + 1]]
    /\ proxies \in ProxyLists
    /\ n_jobs = 0 /\ tasks = <<>> /\ queue = <<>> /\ running = {} /\ trun = <<>>
    /\ ndone = 0 /\ inverted = FALSE /\ results = <<>>
    /\ ppc = "build"
    /\ passed = <<>>
    /\ RetryIdle /\ IterIdle /\ ParseIdle
    /\ SearchIdle /\ PagesIdle /\ MetaIdle /\ ToolIdle

\* the list comprehension runs in the calling thread, outside any try: an
\* error raised by _resolve_proxy for some task leaves parallel_download_urls
ResolutionRaises(us, p) ==
    \E k \in 1..Len(us) : resolve_proxy(p, k - 1) = InvalidProxy

\* tasks = [(i, url, _resolve_proxy(proxies, i)) for i, url in enumerate(urls)]
MakeTasks ==
    /\ ppc = "build"
    /\ IF ResolutionRaises(urls, proxies)
       THEN /\ ppc' = "raised"
            /\ UNCHANGED <<tasks, passed>>
       ELSE /\ tasks' = BuildTasks(urls, proxies)
            /\ passed' = [k \in 1..Len(urls) |-> "pending"]
            /\ ppc' = "tasks"
    /\ UNCHANGED <<urls, n_jobs, proxies, queue, running, trun, ndone, inverted, results>>
    /\ UNCHANGED <<retryVars, iterVars, parseVars, searchVars, pagesVars, metaVars, toolVars>>

\* _download_one(tasks[k]): download_url_with_retry(url, ..., proxy=proxy)
PassProxy(k) ==
    /\ ppc = "tasks"
    /\ passed[k] = "pending"
    /\ passed' = [passed EXCEPT ![k] = tasks[k].proxy]
    /\ UNCHANGED poolVars
    /\ UNCHANGED <<retryVars, iterVars, parseVars, searchVars, pagesVars, metaVars, toolVars>>

NextProxy == MakeTasks \/ \E k \in 1..Len(tasks) : PassProxy(k)

SpecProxy == InitProxy /\ [][NextProxy]_vars

(***************************************************************************)
(* Parsing of index responses. A JSON body is the sequence of its rows, a  *)
(* row the sequence of its cells; a text body is the sequence of its       *)
(* lines, a line the sequence of its tokens and of the whitespace          *)
(* characters between them (<<>> is a blank line). None is written "" for  *)
(* a resume key: both are falsy.                                           *)
(***************************************************************************)
DEFAULT_FIELDS == <<"urlkey", "timestamp", "original", "mimetype",
                    "statuscode", "digest", "length">>

\* the tokens that contain a '%' escape
PctTokens == {"a%2Fb", "com%2Cx%29%2F+2020", "com%2Cx%29%2F+2021"}

\* CDXRecord.from_list: the value of each named field, "" when the row is short
from_list(fields, field_names) ==
    [i \in 1..Len(field_names) |-> IF i <= Len(fields) THEN fields[i] ELSE ""]

\* the whitespace characters that separate the tokens of a text line
Whitespace == {" ", "\t"}

\* str.split(): the tokens between runs of whitespace
split(line) == SelectSeq(line, LAMBDA t : t \notin Whitespace)

\* CDXRecord.from_text_line: fields = line.split()
from_text_line(line, field_names) == from_list(split(line), field_names)

EmptyResponse == [records |-> <<>>, field_names |-> DEFAULT_FIELDS, resume_key |-> ""]

\* `len(row) == 1 and len(data) > 2`: data counts the header row and every
\* row after it
SingleCellIsResumeKey(data, row) == Len(row) = 1
IsResumeKeyRow(data, row) == Len(row) = 1 /\ Len(data) > 2

\* the loop of _parse_json_response over data[1:], from row i on
RECURSIVE JsonRows(_, _, _)
JsonRows(data, i, acc) ==
    IF i > Len(data) THEN acc
    ELSE LET row == data[i] IN
         IF row = <<>> THEN JsonRows(data, i + 1, acc)
         ELSE IF IsResumeKeyRow(data, row)
              THEN JsonRows(data, i + 1, [acc EXCEPT !.resume_key = row[1]])
              ELSE JsonRows(data, i + 1,
                            [acc EXCEPT !.records = Append(@, from_list(row, data[1]))])

\* CDXClient._parse_json_response on the decoded data
parse_json_response(data) ==
    IF data = <<>> THEN EmptyResponse
    ELSE JsonRows(data, 2, [records |-> <<>>, field_names |-> data[1], resume_key |-> ""])

\* "%" in line and " " not in line
LooksLikeResumeKey(line) ==
    /\ \E i \in 1..Len(line) : line[i] \in PctTokens
    /\ \A i \in 1..Len(line) : line[i] # " "

\* the stripped line as one string; a line of several tokens is kept apart
\* from every single token
LineText(line) == IF Len(line) = 1 THEN line[1] ELSE "<several tokens>"

\* the loop of _parse_text_response over the lines, from line i on
RECURSIVE TextLines(_, _, _)
TextLines(lines, i, acc) ==
    IF i > Len(lines) THEN acc
    ELSE LET line == lines[i] IN
         IF line = <<>> THEN TextLines(lines, i + 1, acc)
         ELSE IF LooksLikeResumeKey(line)
              THEN TextLines(lines, i + 1, [acc EXCEPT !.resume_key = LineText(line)])
              ELSE TextLines(lines, i + 1,
                             [acc EXCEPT !.records =
                                  Append(@, from_text_line(line, acc.field_names))])

\* CDXClient._parse_text_response; names is params.get("fl") split at commas
parse_text_response(lines, names) ==
    TextLines(lines, 1,
              [records |-> <<>>,
               field_names |-> IF names # <<>> THEN names ELSE DEFAULT_FIELDS,
               resume_key |-> ""])

\* CDXClient._parse_response
parse_response(b) ==
    IF b.rows = <<>> THEN EmptyResponse
    ELSE IF b.output = "json" THEN parse_json_response(b.rows)
    ELSE parse_text_response(b.rows, b.fl)

(***************************************************************************)
(* The bodies the index service sends: a header row (JSON only), the data  *)
(* rows, and, when it has more, a blank row and a resume-key row.          *)
(***************************************************************************)
MaxFields == 2
MaxRows   == 2

FieldNames == <<"original", "timestamp", "statuscode", "mimetype">>
Cells      == {"x", "a%2Fb"}
ResumeKeys == {"com%2Cx%29%2F+2020", "com%2Cx%29%2F+2021"}

RowsOfWidth(nf) == [1..nf -> Cells]
RowLists(nf)    == UNION {[1..n -> RowsOfWidth(nf)] : n \in 0..MaxRows}

\* the body for the data rows recs under the header row and the resume key
\* key ("": none)
ServiceBody(output, header, recs, key) ==
    (IF output = "json" THEN <<header>> ELSE <<>>)
    \o recs
    \o (IF key # "" THEN <<<<>>, <<key>>>> ELSE <<>>)

\* a line of a text body: the cells of the row with sep between them
TextLine(row, sep) ==
    [i \in 1..(2 * Len(row) - 1) |-> IF i % 2 = 1 THEN row[(i + 1) \div 2] ELSE sep]

\* the text body of these rows
TextBody(recs, key, sep) ==
    [i \in 1..Len(recs) |-> TextLine(recs[i], sep)]
    \o (IF key # "" THEN <<<<>>, <<key>>>> ELSE <<>>)

\* what each row of that body is
ServiceKinds(output, recs, key) ==
    (IF output = "json" THEN <<"header">> ELSE <<>>)
    \o [i \in 1..Len(recs) |-> "data"]
    \o (IF key # "" THEN <<"blank", "resume">> ELSE <<>>)

InitParse ==
    /\ \E o \in {"json", "text"}, nf \in 1..MaxFields :
       \E f \in {<<>>, SubSeq(FieldNames, 1, nf)}, recs \in RowLists(nf),
          key \in ResumeKeys \cup {""},
          sep \in (IF o = "json" THEN {","} ELSE Whitespace) :
            body = [output |-> o, fl |-> f,
                    rows |-> IF o = "json"
                             THEN ServiceBody(o, SubSeq(FieldNames, 1, nf), recs, key)
                             ELSE TextBody(recs, key, sep),
                    cells |-> recs,
                    kinds |-> ServiceKinds(o, recs, key)]
    /\ parsed = <<>>
    /\ RetryIdle /\ PoolIdle /\ IterIdle /\ ClientIdle

Parse ==
    /\ parsed = <<>>
    /\ parsed' = parse_response(body)
    /\ UNCHANGED <<body, retryVars, poolVars, iterVars, clientVars>>

NextParse == Parse

SpecParse == InitParse /\ [][NextParse]_vars

(***************************************************************************)
(* CDXClient.iter_all: a generator over search(limit=batch_size,           *)
(* show_resume_key=True, resume_key=resume_key, **kwargs).                 *)
(***************************************************************************)
MaxBatch == 2
MaxCalls == 3

RecordLabels == <<"r01", "r02", "r03", "r04", "r05", "r06", "r07", "r08", "r09", "r10",
                  "r11", "r12", "r13", "r14", "r15", "r16", "r17", "r18", "r19", "r20">>

\* the parameters CDXClient.search builds for these arguments (output is JSON
\* by default); a key is in the mapping only if the code sets it
SearchParams(limit, fields, show_resume_key, key) ==
    [k \in {"url", "limit", "output"}
           \cup (IF fields # <<>> THEN {"fl"} ELSE {})
           \cup (IF show_resume_key THEN {"showResumeKey"} ELSE {})
           \cup (IF key # "" THEN {"resumeKey"} ELSE {}) |->
        CASE k = "url"           -> "example.com"
          [] k = "limit"         -> limit
          [] k = "output"        -> "json"
          [] k = "fl"            -> fields
          [] k = "showResumeKey" -> "true"
          [] k = "resumeKey"     -> key]

\* the n data rows the service sends on its call number c
ServiceRows(header, c, bs, n) ==
    [p \in 1..n |-> [j \in 1..Len(header) |->
                        IF j = 1 THEN RecordLabels[(c - 1) * bs + p] ELSE "-"]]

\* `if not response.resume_key or len(response) < batch_size: break`
StopAfter(resp, bs) == resp.resume_key = "" \/ Len(resp.records) < bs

\* `resume_key = response.resume_key`
KeepResumeKey(resp) == ""
NextResumeKey(resp) == resp.resume_key

\* The service sends at most `limit` rows per call, a resume key only while it
\* has more to send, and has nothing more after MaxCalls calls.
ServiceAnswers(bs, more) ==
    [n : 0..bs, key : (IF more THEN ResumeKeys ELSE {}) \cup {""}]
ServiceScripts(bs) ==
    {sc \in [1..MaxCalls -> ServiceAnswers(bs, TRUE)] : sc[MaxCalls].key = ""}

\* a generator runs only while its caller waits in next(); at a `yield` it is
\* suspended until the next call
ResumedAlways == TRUE
Resumed == consumer = "waiting"

InitIter ==
    /\ batch_size \in 1..MaxBatch
    /\ fl \in {<<>>} \cup {SubSeq(FieldNames, 1, nf) : nf \in 1..MaxFields}
    /\ ipc = "search"
    /\ resume_key = ""
    /\ response = EmptyResponse
    /\ pos = 0
    /\ yielded = <<>>
    /\ searches = <<>>
    /\ history = <<>>
    /\ service \in ServiceScripts(batch_size)
    /\ consumer = "idle"
    /\ nexts = 0
    /\ RetryIdle /\ PoolIdle /\ ParseIdle /\ ClientIdle

\* response = self.search(...): the request, the service's answer, the parse
IterSearch ==
    /\ ipc = "search"
    /\ Resumed
    /\ Len(searches) < Len(service)
    /\ searches' = Append(searches, SearchParams(batch_size, fl, TRUE, resume_key))
    /\ \E h \in HttpResults :
        IF execute_request(h, TRUE).exc # "none"
        THEN /\ ipc' = "raised"
             /\ consumer' = "idle"
             /\ UNCHANGED <<response, pos, history>>
        ELSE LET c      == Len(searches) + 1
                 header == IF fl = <<>> THEN DEFAULT_FIELDS ELSE fl
                 rows   == ServiceBody("json", header,
                                       ServiceRows(header, c, batch_size, service[c].n),
                                       service[c].key)
                 resp   == parse_response([output |-> "json", fl |-> fl, rows |-> rows])
             IN /\ response' = resp
                /\ history' = Append(history, resp)
                /\ pos' = 0
                /\ ipc' = "batch"
                /\ UNCHANGED consumer
    /\ UNCHANGED <<batch_size, fl, resume_key, yielded, service, nexts>>
    /\ UNCHANGED <<retryVars, poolVars, parseVars, clientVars>>

\* `for record in response: yield record`
IterYield ==
    /\ ipc = "batch"
    /\ Resumed
    /\ pos < Len(response.records)
    /\ yielded' = Append(yielded, response.records[pos + 1])
    /\ pos' = pos + 1
    /\ consumer' = "idle"
    /\ UNCHANGED <<batch_size, fl, ipc, resume_key, response, searches, history, service,
                   nexts>>
    /\ UNCHANGED <<retryVars, poolVars, parseVars, clientVars>>

\* the end of the batch: break, or take the resume key and loop
IterLoop ==
    /\ ipc = "batch"
    /\ Resumed
    /\ pos = Len(response.records)
    /\ IF StopAfter(response, batch_size)
       THEN /\ ipc' = "done"
            /\ consumer' = "idle"
            /\ UNCHANGED resume_key
       ELSE /\ ipc' = "search"
            /\ resume_key' = NextResumeKey(response)
            /\ UNCHANGED consumer
    /\ UNCHANGED <<batch_size, fl, response, pos, yielded, searches, history, service,
                   nexts>>
    /\ UNCHANGED <<retryVars, poolVars, parseVars, clientVars>>

\* the caller asks the generator for a record: next(), or a turn of its for loop
IterNext ==
    /\ consumer = "idle"
    /\ ipc \in {"search", "batch"}
    /\ consumer' = "waiting"
    /\ nexts' = nexts + 1
    /\ UNCHANGED <<batch_size, fl, ipc, resume_key, response, pos, yielded, searches,
                   history, service>>
    /\ UNCHANGED <<retryVars, poolVars, parseVars, clientVars>>

\* the caller leaves its loop: it asks for no further record
IterStop ==
    /\ consumer = "idle"
    /\ ipc \in {"search", "batch"}
    /\ consumer' = "stopped"
    /\ UNCHANGED <<batch_size, fl, ipc, resume_key, response, pos, yielded, searches,
                   history, service, nexts>>
    /\ UNCHANGED <<retryVars, poolVars, parseVars, clientVars>>

NextIter == IterSearch \/ IterYield \/ IterLoop \/ IterNext \/ IterStop

SpecIter == InitIter /\ [][NextIter]_vars

(***************************************************************************)
(* CDXClient.search: the params dict, the query string of _make_request,   *)
(* the GET and the parse of its answer. A dict is the sequence of its      *)
(* items in insertion order; a value is the sequence of its parts: one     *)
(* part for a plain string, the joined parts for ",".join(...), the        *)
(* elements for a list (is_list).                                          *)
(***************************************************************************)
MaxList == 2

FilterPool   == <<"statuscode:200", "!mimetype:text/html", "~original:.*pdf">>
CollapsePool == <<"timestamp:4", "digest", "urlkey">>

Item(k, v)     == [key |-> k, value |-> v, is_list |-> FALSE]
ListItem(k, v) == [key |-> k, value |-> v, is_list |-> TRUE]

\* the params that CDXClient.search builds from its arguments
BuildParams(a) ==
    <<Item("url", <<a.url>>)>>
    \o (IF a.fields # <<>> THEN <<Item("fl", a.fields)>> ELSE <<>>)
    \o (IF a.filters # <<>> THEN <<ListItem("filter", a.filters)>> ELSE <<>>)
    \o (IF a.collapse # <<>> THEN <<ListItem("collapse", a.collapse)>> ELSE <<>>)
    \o (IF a.output = "json" THEN <<Item("output", <<"json">>)>> ELSE <<>>)

\* params.get("output") == "json"
IsJsonRequest(ps) ==
    \E i \in 1..Len(ps) : ps[i].key = "output" /\ ps[i].value = <<"json">>

\* _make_request: the (key, value) pairs given to urlencode
QueryParamsJoined(ps) == [i \in 1..Len(ps) |-> <<ps[i].key, ps[i].value>>]
RECURSIVE QueryParams(_)
QueryParams(ps) ==
    IF ps = <<>> THEN <<>>
    ELSE LET it == Head(ps) IN
         (IF it.is_list
          THEN [i \in 1..Len(it.value) |-> <<it.key, <<it.value[i]>>>>]
          ELSE <<<<it.key, it.value>>>>)
         \o QueryParams(Tail(ps))

\* the lists of at most MaxList elements taken in order from pool
ListsFrom(pool) ==
    UNION {[1..n -> {pool[i] : i \in 1..Min(MaxList, Len(pool))}] : n \in 0..MaxList}

SearchArgs ==
    [url : {"example.com"},
     fields : {<<>>} \cup {SubSeq(FieldNames, 1, nf) : nf \in 1..MaxFields},
     filters : ListsFrom(FilterPool),
     collapse : ListsFrom(CollapsePool),
     output : {"json", "text"}]

InitSearch ==
    /\ sargs \in SearchArgs
    /\ params = <<>> /\ query_params = <<>> /\ gets = 0 /\ http = <<>>
    /\ spc = "call" /\ sout = Pending
    /\ RetryIdle /\ PoolIdle /\ IterIdle /\ ParseIdle
    /\ PagesIdle /\ MetaIdle /\ ProxyIdle /\ ToolIdle

\* search up to session.get: the params, the query string, the GET
SearchSend ==
    /\ spc = "call"
    /\ params' = BuildParams(sargs)
    /\ query_params' = QueryParams(BuildParams(sargs))
    /\ gets' = gets + 1
    /\ spc' = "sent"
    /\ UNCHANGED <<sargs, http, sout>>
    /\ UNCHANGED <<retryVars, poolVars, iterVars, parseVars, pagesVars, metaVars, proxyVars, toolVars>>

\* the answer of the GET: raise_for_status, the except clauses, the parse
SearchReceive ==
    /\ spc = "sent"
    /\ \E h \in HttpResults :
        LET o == execute_request(h, IsJsonRequest(params))
        IN /\ http' = h
           /\ sout' = Tag(o, gets)
           /\ spc' = IF o.exc = "none" THEN "returned" ELSE "raised"
    /\ UNCHANGED <<sargs, params, query_params, gets>>
    /\ UNCHANGED <<retryVars, poolVars, iterVars, parseVars, pagesVars, metaVars, proxyVars, toolVars>>

NextSearch == SearchSend \/ SearchReceive

SpecSearch == InitSearch /\ [][NextSearch]_vars

(***************************************************************************)
(* CDXClient.iter_pages: a generator that asks get_num_pages for the page  *)
(* count and then searches page after page.                                *)
(***************************************************************************)
MaxPages == 3

\* Python's range(n), as the sequence of its values
RangeFromOne(n) == [i \in 1..Max(n, 0) |-> i]
range(n) == [i \in 1..Max(n, 0) |-> i - 1]

PagesArgs == [page_size : {None, 0, 5}, match_type : {"", "prefix"}]

\* what the service answers to the showNumPages query: a number, or a text
\* that int() rejects, or a failure of the request
CountAnswers ==
    [raises : {"none"}, status_code : {200}, numeric : {TRUE}, pages : (0 - 1)..MaxPages]
    \cup [raises : {"none"}, status_code : {200, 503}, numeric : {FALSE}, pages : {0}]
    \cup [raises : {"RequestException"}, status_code : {None}, numeric : {FALSE},
          pages : {0}]

\* get_num_pages: _make_request, then int(response.text.strip())
get_num_pages(h) ==
    LET rsp == make_request(h) IN
    IF rsp.exc # "none" THEN [exc |-> rsp.exc, pages |-> 0]
    ELSE IF ~h.numeric THEN [exc |-> "ValueError", pages |-> 0]
    ELSE [exc |-> "none", pages |-> h.pages]

\* the parameters of the page-count query: `if page_size:` drops None and 0
NumPagesRequest(a) ==
    [kind |-> "numpages", page |-> None, pageSize |-> OrElse(a.page_size, None),
     matchType |-> a.match_type]

\* the parameters of search(url=url, page=page_num, page_size=page_size, **kwargs)
PageRequest(a, p) ==
    [kind |-> "search", page |-> p, pageSize |-> a.page_size,
     matchType |-> a.match_type]

InitPages ==
    /\ pgargs \in PagesArgs
    /\ num_pages = 0 /\ page_num = 0 /\ pgpc = "count"
    /\ pglog = <<>> /\ pgyielded = <<>>
    /\ RetryIdle /\ PoolIdle /\ IterIdle /\ ParseIdle
    /\ SearchIdle /\ MetaIdle /\ ProxyIdle /\ ToolIdle

\* num_pages = self.get_num_pages(...)
PagesCount ==
    /\ pgpc = "count"
    /\ pglog' = Append(pglog, NumPagesRequest(pgargs))
    /\ \E h \in CountAnswers :
        LET r == get_num_pages(h)
        IN IF r.exc # "none"
           THEN /\ pgpc' = r.exc
                /\ UNCHANGED num_pages
           ELSE /\ pgpc' = "loop"
                /\ num_pages' = r.pages
    /\ UNCHANGED <<pgargs, page_num, pgyielded>>
    /\ UNCHANGED <<retryVars, poolVars, iterVars, parseVars, searchVars, metaVars, proxyVars, toolVars>>

\* one turn of `for page_num in range(num_pages): yield self.search(...)`;
\* page_num counts the turns made
PagesSearch ==
    /\ pgpc = "loop"
    /\ page_num < Len(range(num_pages))
    /\ LET p == range(num_pages)[page_num + 1]
       IN /\ pglog' = Append(pglog, PageRequest(pgargs, p))
          /\ \E h \in HttpResults, n \in 0..1 :
              LET o == execute_request(h, TRUE)
              IN IF o.exc # "none"
                 THEN /\ pgpc' = o.exc
                      /\ UNCHANGED <<page_num, pgyielded>>
                 ELSE /\ pgyielded' = Append(pgyielded, [page |-> p, records |-> n])
                      /\ page_num' = page_num + 1
                      /\ UNCHANGED pgpc
    /\ UNCHANGED <<pgargs, num_pages>>
    /\ UNCHANGED <<retryVars, poolVars, iterVars, parseVars, searchVars, metaVars, proxyVars, toolVars>>

\* the range is used up: the generator ends
PagesEnd ==
    /\ pgpc = "loop"
    /\ page_num >= Len(range(num_pages))
    /\ pgpc' = "done"
    /\ UNCHANGED <<pgargs, num_pages, page_num, pglog, pgyielded>>
    /\ UNCHANGED <<retryVars, poolVars, iterVars, parseVars, searchVars, metaVars, proxyVars, toolVars>>

NextPages == PagesCount \/ PagesSearch \/ PagesEnd

SpecPages == InitPages /\ [][NextPages]_vars

(***************************************************************************)
(* get_wayback_metadata: the search under the retry boundary and the       *)
(* aggregation of its records, over several calls in a row.                *)
(***************************************************************************)
MaxSnapshots == 3
MaxMetaCalls == 2

Timestamps == {"", "20200101000000", "20210101000000"}

\* A url is the sequence of its pieces: a whitespace character, a scheme
\* ("http://", "https://") or a stretch of other text.
StripChars == {" ", "\t", "\n", "\r"}

\* str.strip(): the whitespace at both ends is removed
RECURSIVE StripLeft(_)
StripLeft(url) ==
    IF url # <<>> /\ Head(url) \in StripChars THEN StripLeft(Tail(url)) ELSE url
RECURSIVE StripRight(_)
StripRight(url) ==
    IF url # <<>> /\ url[Len(url)] \in StripChars
    THEN StripRight(SubSeq(url, 1, Len(url) - 1))
    ELSE url
strip(url) == StripRight(StripLeft(url))

\* normalized.startswith(('http://', 'https://'))
StartsWithScheme(url) == url # <<>> /\ Head(url) \in {"http://", "https://"}

\* _normalize_url: strip, and "https://" in front when no scheme is given
NormalizeKeepsInput(url) == url
normalize_url(url) ==
    LET normalized == strip(url) IN
    IF ~StartsWithScheme(normalized) THEN <<"https://">> \o normalized ELSE normalized

\* timestamp[:n]
Slice(timestamp, n) ==
    CASE timestamp = "20200101000000" /\ n = 4 -> "2020"
      [] timestamp = "20200101000000" /\ n = 8 -> "20200101"
      [] timestamp = "20210101000000" /\ n = 4 -> "2021"
      [] timestamp = "20210101000000" /\ n = 8 -> "20210101"
      [] OTHER                                 -> timestamp

\* len(timestamp)
StrLen(timestamp) == IF timestamp = "" THEN 0 ELSE 14

\* the attribute `name` of a record parsed under these field names ("" is
\* the default of the dataclass)
Field(field_names, record, name) ==
    IF \E i \in 1..Len(field_names) : field_names[i] = name
    THEN record[CHOOSE i \in 1..Len(field_names) : field_names[i] = name]
    ELSE ""

\* _build_wayback_url: the parts of the f-string
build_wayback_url(timestamp, original_url) ==
    <<"https://web.archive.org/web/", timestamp, "/">> \o original_url

\* _record_to_dict
record_to_dict(field_names, record, normalized_url) ==
    LET timestamp == Field(field_names, record, "timestamp") IN
    [wayback_url  |-> build_wayback_url(timestamp, normalized_url),
     timestamp    |-> timestamp,
     original_url |-> normalized_url,
     mimetype     |-> Field(field_names, record, "mimetype"),
     statuscode   |-> Field(field_names, record, "statuscode"),
     digest       |-> Field(field_names, record, "digest"),
     length       |-> Field(field_names, record, "length"),
     year         |-> IF StrLen(timestamp) >= 4 THEN Slice(timestamp, 4) ELSE "",
     date         |-> IF StrLen(timestamp) >= 8 THEN Slice(timestamp, 8) ELSE timestamp]

\* `if record.timestamp`
KeepEvery(field_names, record) == TRUE
HasTimestamp(field_names, record) == Field(field_names, record, "timestamp") # ""

\* snapshots = [_record_to_dict(record, normalized_url) for record in response
\*              if record.timestamp]
Snapshots(resp, normalized_url) ==
    LET kept == SelectSeq(resp.records, LAMBDA r : HasTimestamp(resp.field_names, r))
    IN [i \in 1..Len(kept) |-> record_to_dict(resp.field_names, kept[i], normalized_url)]

\* Python's None where a snapshot dictionary is expected
NoSnapshot == [none |-> TRUE]

\* "latest": snapshots[-1] if snapshots else None
LatestKept(snapshots) ==
    IF snapshots # <<>> THEN snapshots[Len(snapshots)]
    ELSE IF result # <<>> THEN result.latest ELSE NoSnapshot
Latest(snapshots) ==
    IF snapshots # <<>> THEN snapshots[Len(snapshots)] ELSE NoSnapshot

\* "oldest": snapshots[0] if snapshots else None
Oldest(snapshots) ==
    IF snapshots # <<>> THEN snapshots[1] ELSE NoSnapshot

\* the result dictionary of get_wayback_metadata
MetadataResult(resp, url) ==
    LET normalized_url == normalize_url(url)
        snapshots      == Snapshots(resp, normalized_url)
    IN [url             |-> normalized_url,
        snapshots_count |-> Len(snapshots),
        snapshots       |-> snapshots,
        latest          |-> Latest(snapshots),
        oldest          |-> Oldest(snapshots)]

\* a capture row of the service, in the order of the default fields
CaptureRow(timestamp) ==
    <<"com,example)/", timestamp, "http://example.com/", "text/html", "200",
      "DIGEST", "1234">>

HeldRows == UNION {[1..n -> {CaptureRow(t) : t \in Timestamps}] : n \in 0..MaxSnapshots}
MetaUrls == {<<" ", "example.com", " ">>, <<"http://", "example.com/">>,
             <<"\t", "https://", "example.com/", " ", "a", "\n">>,
             <<"example.com">>, <<"ftp://", "example.com">>, <<" ">>}

\* what the search of one attempt can meet
MetaAnswers ==
    {h \in HttpResults : /\ h.status_code \in {None, 200, 503}
                         /\ h.status_code = 503 => h.text = "empty"
                         /\ h.raises \in {"none", "RequestException"}}

InitMeta ==
    /\ murl \in MetaUrls
    /\ mattempt = 1 /\ mcalls = 1 /\ mpc = "attempt"
    /\ mresp = <<>> /\ result = <<>> /\ mearlier = FALSE
    /\ RetryIdle /\ PoolIdle /\ IterIdle /\ ParseIdle
    /\ SearchIdle /\ PagesIdle /\ ProxyIdle /\ ToolIdle

\* one attempt of the decorated function: the search, answered with the
\* capture rows the service holds by then, and either the aggregation and the
\* return, or tenacity's decision on the error (the backoff wait precedes the
\* next attempt)
MetaAttempt ==
    /\ mpc = "attempt"
    /\ \E h \in MetaAnswers :
       \E held \in (IF h.text = "array" THEN HeldRows ELSE {<<>>}) :
        LET o    == execute_request(h, TRUE)
            d    == RetryIter("get_wayback_metadata", mattempt, o)
            resp == IF h.text = "empty" THEN EmptyResponse
                    ELSE parse_response([output |-> "json", fl |-> <<>>,
                             rows |-> ServiceBody("json", DEFAULT_FIELDS, held, "")])
        IN CASE d.do = "returned" ->
                  /\ mresp' = resp
                  /\ result' = MetadataResult(resp, murl)
                  /\ mearlier' = (mearlier \/ (result # <<>> /\ result.snapshots # <<>>))
                  /\ mpc' = "returned"
                  /\ UNCHANGED mattempt
             [] d.do = "sleep" ->
                  /\ mattempt' = mattempt + 1
                  /\ UNCHANGED <<mresp, result, mearlier, mpc>>
             [] OTHER ->
                  /\ mpc' = "raised"
                  /\ UNCHANGED <<mattempt, mresp, result, mearlier>>
    /\ UNCHANGED <<murl, mcalls>>
    /\ UNCHANGED <<retryVars, poolVars, iterVars, parseVars, searchVars, pagesVars, proxyVars, toolVars>>

\* the caller calls get_wayback_metadata again for the same url
MetaCallAgain ==
    /\ mpc \in {"returned", "raised"}
    /\ mcalls < MaxMetaCalls
    /\ mcalls' = mcalls + 1
    /\ mattempt' = 1
    /\ mpc' = "attempt"
    /\ UNCHANGED <<murl, mresp, result, mearlier>>
    /\ UNCHANGED <<retryVars, poolVars, iterVars, parseVars, searchVars, pagesVars, proxyVars, toolVars>>

NextMeta == MetaAttempt \/ MetaCallAgain

SpecMeta == InitMeta /\ [][NextMeta]_vars

(***************************************************************************)
(* build_archive_url and convert_to_id_url. A URL is the sequence of its   *)
(* characters; the fixed beginning "https://web.archive.org/web/", which   *)
(* the pattern matches literally, is kept as one item.                     *)
(***************************************************************************)
ArchivePrefix == "https://web.archive.org/web/"

\* \d
Digits == {"0", "1", "2", "3", "4", "5", "6", "7", "8", "9"}
\* [a-z_]
ModeLetters == {"a", "b", "c", "d", "e", "f", "g", "h", "i", "j", "k", "l", "m",
                "n", "o", "p", "q", "r", "s", "t", "u", "v", "w", "x", "y", "z"}
ModeChars == {"a", "b", "c", "d", "e", "f", "g", "h", "i", "j", "k", "l", "m",
              "n", "o", "p", "q", "r", "s", "t", "u", "v", "w", "x", "y", "z", "_"}
\* . (every character but the newline)
Dot(c) == c # "\n"

\* the {14} of (\d{14})
TimestampDigits == 14

\* f"https://web.archive.org/web/{timestamp}id_/{target_url}"
build_archive_url(timestamp, target_url) ==
    <<ArchivePrefix>> \o timestamp \o <<"i", "d", "_", "/">> \o target_url

\* the index after the longest run of characters of `set` that starts at i
RECURSIVE RunEnd(_, _, _)
RunEnd(url, i, set) ==
    IF i <= Len(url) /\ url[i] \in set THEN RunEnd(url, i + 1, set) ELSE i

\* the index after the longest run of characters matched by . that starts at i
RECURSIVE DotEnd(_, _)
DotEnd(url, i) ==
    IF i <= Len(url) /\ Dot(url[i]) THEN DotEnd(url, i + 1) ELSE i

\* (\d{14}) at index 2: the index after the group, 0 when it does not match
TimestampEndAnyLength(url) ==
    IF RunEnd(url, 2, Digits) > 2 THEN RunEnd(url, 2, Digits) ELSE 0
TimestampEnd(url) ==
    IF /\ Len(url) >= 1 + TimestampDigits
       /\ \A i \in 2..(1 + TimestampDigits) : url[i] \in Digits
    THEN 2 + TimestampDigits
    ELSE 0

NoMatch == [matched |-> FALSE, timestamp |-> <<>>, mode |-> <<>>, target_url |-> <<>>]

\* re.match(r'https://web\.archive\.org/web/(\d{14})([a-z_]*)/(.+)', wayback_url):
\* anchored at the start only; [a-z_]* and .+ are greedy, and since "/" is not
\* in [a-z_] no shorter mode can be followed by the "/"
ReMatch(url) ==
    IF Len(url) = 0 \/ url[1] # ArchivePrefix THEN NoMatch
    ELSE LET t == TimestampEnd(url)
             s == RunEnd(url, t, ModeChars)
             e == DotEnd(url, s + 1)
         IN IF t = 0 THEN NoMatch
            ELSE IF s > Len(url) \/ url[s] # "/" THEN NoMatch
            ELSE IF e = s + 1 THEN NoMatch
            ELSE [matched |-> TRUE,
                  timestamp  |-> SubSeq(url, 2, t - 1),
                  mode       |-> SubSeq(url, t, s - 1),
                  target_url |-> SubSeq(url, s + 1, e - 1)]

\* return f"https://web.archive.org/web/{timestamp}id_/{target_url}"
RewriteKeepsMode(g) ==
    <<ArchivePrefix>> \o g.timestamp \o g.mode \o <<"/">> \o g.target_url
Rewrite(g) ==
    <<ArchivePrefix>> \o g.timestamp \o <<"i", "d", "_", "/">> \o g.target_url

convert_to_id_url(url) ==
    LET g == ReMatch(url)
    IN IF ~g.matched
       THEN [exc |-> "ValueError", value |-> <<>>]
       ELSE [exc |-> "none", value |-> Rewrite(g)]

\* ---- the inputs
ExampleTimestamp == <<"2", "0", "2", "6", "0", "1", "0", "1", "0", "2", "0", "7", "5", "8">>
OtherTimestamp   == <<"1", "9", "9", "9", "1", "2", "3", "1", "2", "3", "5", "9", "5", "9">>

TimestampTexts ==
    {ExampleTimestamp, OtherTimestamp,
     SubSeq(ExampleTimestamp, 1, 13), ExampleTimestamp \o <<"0">>,
     SubSeq(ExampleTimestamp, 1, 10), <<>>,
     [ExampleTimestamp EXCEPT ![5] = "x"], [ExampleTimestamp EXCEPT ![14] = "-"]}

Modes == {<<>>, <<"r", "a", "w">>, <<"i", "f", "_">>, <<"j", "s", "_">>,
          <<"i", "d", "_">>, <<"i", "m", "_">>, <<"I", "D", "_">>}

Heads == {<<ArchivePrefix>>, <<"http://web.archive.org/web/">>,
          <<"https://webxarchive.org/web/">>, <<"https://web.archive.org/">>,
          <<" ", ArchivePrefix>>}

Targets == {<<"h", "t", "t", "p", "s", ":", "/", "/", "a", "1", "6", "z", ".", "c", "o", "m", "/">>,
            <<"a", ".", "c", "o", "/", "x", "?", "y", "=", "1">>,
            <<"a", "b", "/", "c">>,
            <<"1", "/", "x">>,
            <<"a", ".", "c", "o", "\n", "x">>,
            <<>>}

UrlParts ==
    [head : Heads, timestamp : TimestampTexts, mode : Modes,
     slash : {<<"/">>, <<>>}, target_url : Targets]

Joined(p) == p.head \o p.timestamp \o p.mode \o p.slash \o p.target_url

NotConverted == [exc |-> "pending", value |-> <<>>]

InitUrl ==
    /\ built \in UrlParts
    /\ wayback_url = Joined(built)
    /\ id_url = NotConverted
    /\ id_again = NotConverted
    /\ upc = "call"
    /\ RetryIdle /\ PoolIdle /\ IterIdle /\ ParseIdle
    /\ SearchIdle /\ PagesIdle /\ MetaIdle /\ ProxyIdle /\ ProgressIdle /\ QueryIdle

\* one call of convert_to_id_url
Convert ==
    /\ upc = "call"
    /\ id_url' = convert_to_id_url(wayback_url)
    /\ upc' = IF id_url'.exc = "none" THEN "returned" ELSE "raised"
    /\ UNCHANGED <<built, wayback_url, id_again>>
    /\ UNCHANGED <<retryVars, poolVars, iterVars, parseVars, searchVars, pagesVars,
                   metaVars, proxyVars, progressVars, queryVars>>

\* convert_to_id_url called on what the first call returned
ConvertAgain ==
    /\ upc = "returned"
    /\ id_again = NotConverted
    /\ id_again' = convert_to_id_url(id_url.value)
    /\ UNCHANGED <<built, wayback_url, id_url, upc>>
    /\ UNCHANGED <<retryVars, poolVars, iterVars, parseVars, searchVars, pagesVars,
                   metaVars, proxyVars, progressVars, queryVars>>

NextUrl == Convert \/ ConvertAgain

SpecUrl == InitUrl /\ [][NextUrl]_vars

(***************************************************************************)
(* parallel_download_urls and its progress bar: the worker function        *)
(* download_with_progress, run by the n_jobs threads of the pool, and the  *)
(* counter of the tqdm bar. pbar.update(1) is one step of its thread.      *)
(***************************************************************************)
\* if show_progress_bar and tqdm is not None
ProgressEnabled(p) == p.show_progress_bar /\ p.tqdm

\* what _download_one(task) ends with: a response, None (`except Exception`),
\* or an error that is not an Exception and passes through
FetchOutcomes == {"response", "None", "KeyboardInterrupt"}

\* pbar.update(1), after _download_one returned r
UpdateOnSuccessOnly(r) == IF r = "response" THEN 1 ELSE 0
ProgressStep(r) == 1

\* the tasks a thread of the pool is executing
Active == {k \in 1..Len(urls) : pstate[k] \in {"fetch", "update"}}

InitProgress ==
    /\ \E n \in 0..MaxUrls : urls = SubSeq(UrlPool, 1, n)
    /\ n_jobs \in 1..MaxJobs
    /\ progress \in [show_progress_bar : BOOLEAN, tqdm : BOOLEAN]
    /\ pbar = IF ProgressEnabled(progress) THEN 0 ELSE None
    /\ pstate = [k \in 1..Len(urls) |-> "queued"]
    /\ pupdates = [k \in 1..Len(urls) |-> 0]
    /\ presults = [k \in 1..Len(urls) |-> "pending"]
    /\ ppc = "running"
    /\ proxies = <<>> /\ tasks = <<>> /\ queue = <<>> /\ running = {} /\ trun = <<>>
    /\ ndone = 0 /\ inverted = FALSE /\ results = <<>>
    /\ RetryIdle /\ IterIdle /\ ParseIdle
    /\ SearchIdle /\ PagesIdle /\ MetaIdle /\ ProxyIdle /\ UrlIdle /\ QueryIdle

\* a free thread of the pool takes the next task
ProgressStart ==
    /\ ppc = "running"
    /\ Cardinality(Active) < n_jobs
    /\ \E k \in 1..Len(urls) :
        /\ pstate[k] = "queued"
        /\ \A j \in 1..(k - 1) : pstate[j] # "queued"
        /\ pstate' = [pstate EXCEPT ![k] = "fetch"]
    /\ UNCHANGED <<progress, pupdates, pbar, presults>>
    /\ UNCHANGED <<poolVars, retryVars, iterVars, parseVars, searchVars, pagesVars,
                   metaVars, proxyVars, urlVars, queryVars>>

\* result = _download_one(task); without a bar the worker function is
\* _download_one itself and the task is complete
ProgressFetch(k) ==
    /\ ppc = "running"
    /\ pstate[k] = "fetch"
    /\ \E r \in FetchOutcomes :
        IF r \notin {"response", "None"}
        THEN /\ ppc' = "raised"
             /\ pstate' = [pstate EXCEPT ![k] = "raised"]
             /\ UNCHANGED presults
        ELSE /\ presults' = [presults EXCEPT ![k] = r]
             /\ pstate' = [pstate EXCEPT ![k] =
                              IF ProgressEnabled(progress) THEN "update" ELSE "done"]
             /\ UNCHANGED ppc
    /\ UNCHANGED <<progress, pupdates, pbar>>
    /\ UNCHANGED <<urls, n_jobs, proxies, tasks, queue, running, trun, ndone, inverted,
                   results>>
    /\ UNCHANGED <<retryVars, iterVars, parseVars, searchVars, pagesVars, metaVars,
                   proxyVars, urlVars, queryVars>>

\* pbar.update(1); return result
ProgressUpdate(k) ==
    /\ ppc = "running"
    /\ pstate[k] = "update"
    /\ pbar' = pbar + ProgressStep(presults[k])
    /\ pupdates' = [pupdates EXCEPT ![k] = @ + ProgressStep(presults[k])]
    /\ pstate' = [pstate EXCEPT ![k] = "done"]
    /\ UNCHANGED <<progress, presults>>
    /\ UNCHANGED <<poolVars, retryVars, iterVars, parseVars, searchVars, pagesVars,
                   metaVars, proxyVars, urlVars, queryVars>>

\* every task has completed: pbar.close(), `return results`
ProgressReturn ==
    /\ ppc = "running"
    /\ \A k \in 1..Len(urls) : pstate[k] = "done"
    /\ ppc' = "returned"
    /\ UNCHANGED <<urls, n_jobs, proxies, tasks, queue, running, trun, ndone, inverted,
                   results>>
    /\ UNCHANGED progressVars
    /\ UNCHANGED <<retryVars, iterVars, parseVars, searchVars, pagesVars, metaVars,
                   proxyVars, urlVars, queryVars>>

NextProgress ==
    \/ ProgressStart
    \/ \E k \in 1..Len(urls) : ProgressFetch(k)
    \/ \E k \in 1..Len(urls) : ProgressUpdate(k)
    \/ ProgressReturn

SpecProgress == InitProgress /\ [][NextProgress]_vars

(***************************************************************************)
(* The CDXQuery builder: __init__, filter, collapse and build_params.      *)
(* self.params is a dict, modelled as a function from its keys.            *)
(***************************************************************************)
MaxQueryCalls == 2
MaxQueryArgs  == 2

\* the positional arguments of one call: at most MaxQueryArgs elements
QueryArgs(pool) ==
    UNION {[1..n -> {pool[i] : i \in 1..Min(MaxQueryArgs, Len(pool))}] : n \in 0..MaxQueryArgs}

\* self.params[k] = v
SetItem(d, k, v) == [x \in DOMAIN d \cup {k} |-> IF x = k THEN v ELSE d[x]]

\* self.params = {"url": url}
InitQuery ==
    /\ qparams = [x \in {"url"} |-> <<"example.com">>]
    /\ qcalls = <<>>
    /\ qbuilt = <<>>
    /\ qpc = "build"
    /\ RetryIdle /\ PoolIdle /\ IterIdle /\ ParseIdle
    /\ SearchIdle /\ PagesIdle /\ MetaIdle /\ ProxyIdle /\ UrlIdle /\ ProgressIdle

\* query.filter(f1, f2, ...)
QueryFilter ==
    /\ qpc = "build"
    /\ Len(qcalls) < MaxQueryCalls
    /\ \E filters \in QueryArgs(FilterPool) :
        /\ qparams' = SetItem(qparams, "filter", filters)
        /\ qcalls' = Append(qcalls, [method |-> "filter", args |-> filters])
    /\ UNCHANGED <<qbuilt, qpc>>
    /\ UNCHANGED <<retryVars, poolVars, iterVars, parseVars, searchVars, pagesVars,
                   metaVars, proxyVars, urlVars, progressVars>>

\* query.collapse(f1, f2, ...)
QueryCollapse ==
    /\ qpc = "build"
    /\ Len(qcalls) < MaxQueryCalls
    /\ \E fields \in QueryArgs(CollapsePool) :
        /\ qparams' = SetItem(qparams, "collapse", fields)
        /\ qcalls' = Append(qcalls, [method |-> "collapse", args |-> fields])
    /\ UNCHANGED <<qbuilt, qpc>>
    /\ UNCHANGED <<retryVars, poolVars, iterVars, parseVars, searchVars, pagesVars,
                   metaVars, proxyVars, urlVars, progressVars>>

\* query.build_params(): return self.params.copy()
QueryBuild ==
    /\ qpc = "build"
    /\ qbuilt' = qparams
    /\ qpc' = "built"
    /\ UNCHANGED <<qparams, qcalls>>
    /\ UNCHANGED <<retryVars, poolVars, iterVars, parseVars, searchVars, pagesVars,
                   metaVars, proxyVars, urlVars, progressVars>>

NextQuery == QueryFilter \/ QueryCollapse \/ QueryBuild

SpecQuery == InitQuery /\ [][NextQuery]_vars

(***************************************************************************)
(* Claims about the retry boundaries, checked under SpecRetry.             *)
(***************************************************************************)
Downloading == boundary = "download_url_with_retry"

\* C3: when the first k attempts of download_url_with_retry fail with a
\* retryable error and attempt k+1 succeeds (k < 6), the call returns the
\* response of attempt k+1 after exactly k+1 attempts and exactly k backoff
\* waits, each of them within [3, 60] seconds.
C3_RetryThenSuccess ==
    (Downloading /\ rpc = "returned") =>
        /\ failures < 6
        /\ final.exc = "none"
        /\ final.attempt = failures + 1
        /\ final = outcome
        /\ calls = failures + 1
        /\ Len(waits) = failures
        /\ \A i \in 1..Len(waits) : 3 <= waits[i] /\ waits[i] <= 60

C3_Witness ==
    /\ Downloading /\ rpc = "returned"
    /\ failures = 5 /\ Len(waits) = 5 /\ final.attempt = 6

\* the retryable set as the claim C4 lists it
C4_Retryable == {"CrawlError", "OSError", "TimeoutError", "ConnectionError",
                 "asyncio.TimeoutError", "RuntimeError"}
C4_Fatal(o) ==
    /\ o.exc \notin {"none", "pending"}
    /\ \A t \in C4_Retryable : ~IsInstance(o.exc, t)

\* C4: an attempt of download_url_with_retry that fails with an error kind
\* outside the retryable set ends the call at once with that very error: no
\* wait is performed and no further attempt is made, at any attempt number.
C4_FatalPropagates ==
    [][ /\ (Downloading /\ calls' = calls + 1 /\ C4_Fatal(outcome')) =>
              /\ rpc' = "raised"
              /\ final' = outcome'
              /\ waits' = waits
        /\ (Downloading /\ rpc = "raised") => (calls' = calls /\ waits' = waits)
      ]_vars

C4_Witness ==
    /\ Downloading /\ rpc = "raised"
    /\ outcome.exc = "ValueError" /\ final.exc = "ValueError"
    /\ calls = 3 /\ Len(waits) = 2

\* C5: after a retry boundary has used up its attempts (6 for
\* download_url_with_retry, 3 for get_wayback_metadata), every one of them
\* failing, the caller receives the underlying error itself: the CrawlError
\* with its status code, resp. the CDXError.
C5_ExhaustedRaisesUnderlying ==
    (/\ rpc = "raised"
     /\ failures = calls
     /\ calls = (IF Downloading THEN 6 ELSE 3)) =>
        /\ final.exc = outcome.exc
        /\ final.status_code = outcome.status_code

\* C6: the retry decision of download_url_with_retry depends on the kind of
\* the error only: two runs that meet the same error kinds and differ in the
\* status codes the CrawlErrors carry make the same attempts and the same waits.
C6_StatusBlind ==
    Downloading =>
        /\ rpc2 = rpc
        /\ attempt_number2 = attempt_number
        /\ calls2 = calls
        /\ waits2 = waits
        /\ final2.exc = final.exc

C6_Witness ==
    /\ Downloading /\ rpc = "sleep" /\ rpc2 = "sleep"
    /\ outcome.exc = "CrawlError" /\ outcome.status_code = 404
    /\ outcome2.exc = "CrawlError" /\ outcome2.status_code = 503
    /\ Len(waits) = 1

\* C7: download_url never returns a response whose status code is in
\* [400, 600): whenever the fetch primitive reports such a status, or reports
\* failure, download_url raises CrawlError carrying that status code and the
\* partial response.
C7_NoErrorStatusReturned ==
    (Downloading /\ calls > 0) =>
        /\ outcome.exc = "none" =>
              ~(400 <= outcome.status_code /\ outcome.status_code < 600)
        /\ (/\ fetched.raises = "none"
            /\ \/ ~fetched.success
               \/ (400 <= fetched.status_code /\ fetched.status_code < 600)) =>
              /\ outcome.exc = "CrawlError"
              /\ outcome.status_code = fetched.status_code
              /\ outcome.response = OrElse(fetched.status_code, 0)

C7_Witness ==
    /\ Downloading /\ calls > 0
    /\ fetched.raises = "none" /\ fetched.success /\ fetched.status_code = 404
    /\ outcome.exc = "CrawlError" /\ outcome.status_code = 404 /\ outcome.response = 404

\* the error of an invalid archive URL (ValueError) and the cancellation error
C26_Kinds == {"ValueError", "CancelledError"}

\* C26: an invalid-archive-URL error and a cancellation error are never
\* retried: when an attempt of download_url_with_retry or of
\* get_wayback_metadata raises one of them, the boundary raises it at once,
\* performing no wait and making no further attempt.
C26_NeverRetried ==
    [][ /\ (calls' = calls + 1 /\ outcome'.exc \in C26_Kinds) =>
              /\ rpc' = "raised"
              /\ final'.exc = outcome'.exc
              /\ waits' = waits
              /\ attempt_number' = attempt_number
        /\ (rpc = "raised" /\ final.exc \in C26_Kinds) =>
              (calls' = calls /\ waits' = waits)
      ]_vars

\* the second search of get_wayback_metadata was cancelled
C26_Witness ==
    /\ boundary = "get_wayback_metadata" /\ rpc = "raised"
    /\ outcome.exc = "CancelledError" /\ final.exc = "CancelledError"
    /\ calls = 2 /\ Len(waits) = 1

C29_Kinds == {"TimeoutError", "asyncio.TimeoutError", "CrawlError", "OSError",
              "ConnectionError", "RuntimeError"}

\* attempt k has just failed with one of the kinds, k - 1 waits lying behind
C29_Failed(k) ==
    /\ Downloading
    /\ calls = k /\ outcome.attempt = k /\ outcome.exc \in C29_Kinds
    /\ Len(waits) = k - 1

\* attempt k + 1 is about to be made, after one more wait
C29_NextAttempt(k) ==
    /\ Downloading
    /\ rpc = "attempt" /\ attempt_number = k + 1
    /\ calls = k /\ Len(waits) = k

\* C29: in download_url_with_retry, an attempt k < 6 that fails with a timeout,
\* a CrawlError, an OSError / ConnectionError or a RuntimeError is always
\* followed, after one backoff wait, by attempt k + 1.
C29_RetryableIsRetried ==
    \A k \in 1..5 : C29_Failed(k) ~> C29_NextAttempt(k)

\* the sixth attempt is reached after five connection failures
C29_Witness ==
    /\ C29_NextAttempt(5)
    /\ outcome.exc = "ConnectionError"
    /\ failures = 5

\* the wait the claim states: base^n * multiplier clamped into [min, max],
\* with base 2, multiplier 2, min 3 and max 60
C30_Stated(n) == Max(3, Min(Pow(2, n) * 2, 60))

\* C30 (as stated): in download_url_with_retry the wait after the n-th failed
\* attempt (n = 1..5) equals 2^n * 2 clamped into [3, 60].
C30_WaitsAsStated ==
    Downloading => \A n \in 1..Len(waits) : waits[n] = C30_Stated(n)

\* C30 (amended): in download_url_with_retry the wait after the n-th failed
\* attempt (n = 1..5) equals multiplier * base^(n-1) clamped into [min, max],
\* with base 2, multiplier 2, min 3 and max 60: 3, 4, 8, 16 and 32 seconds.
C30_WaitsFromFirstPower ==
    Downloading =>
        /\ Len(waits) <= 5
        /\ \A n \in 1..Len(waits) :
              /\ waits[n] = Max(3, Min(2 * Pow(2, n - 1), 60))
              /\ waits[n] = <<3, 4, 8, 16, 32>>[n]

\* five waits have been made
C30_Witness ==
    /\ Downloading
    /\ Len(waits) = 5
    /\ waits[1] = 3 /\ waits[5] = 32

(***************************************************************************)
(* Claims about parallel_download_urls, checked under Spec.                *)
(***************************************************************************)
\* the task j used up its 6 attempts, each failing with a retryable error
TaskExhausted(j) ==
    trun[j].pc = "done" /\ trun[j].calls = 6 /\ trun[j].final = "RetryError"
\* the task i ended with a response
TaskSucceeded(i) ==
    trun[i].pc = "done" /\ trun[i].final = "none"

\* C1: for every input list, every worker count n_jobs >= 1 and every
\* completion order, parallel_download_urls returns a list of exactly
\* len(urls) elements whose element i is the outcome (response or None) of the
\* task created for urls[i]; results are never placed by completion order.
C1_OrderedResults ==
    ppc = "returned" =>
        /\ Len(results) = Len(urls)
        /\ \A i \in 1..Len(urls) :
              /\ results[i] = trun[i].value
              /\ results[i].kind \in {"response", "None"}
              /\ results[i].kind = "response" =>
                    (results[i].task = i /\ results[i].url = urls[i])
              /\ results[i].kind = "response" <=> trun[i].final = "none"

C1_Witness ==
    /\ ppc = "returned" /\ Len(urls) = 3 /\ n_jobs = 2 /\ inverted
    /\ results[1].kind = "response" /\ results[1].task = 1
    /\ results[2].kind = "None"
    /\ results[3].kind = "response" /\ results[3].task = 3

\* C2: when one task fails on every attempt with a retryable error while all
\* other tasks succeed, the call does not raise: it returns None at the index
\* of the failing task and a response at every other index, for any worker
\* count and any interleaving.
C2_FailureIsolated ==
    \A j \in 1..Len(urls) :
        (TaskExhausted(j) /\ \A i \in 1..Len(urls) \ {j} : TaskSucceeded(i)) =>
            /\ ppc # "raised"
            /\ ppc = "running" => (queue = <<>> /\ running = {})
            /\ ppc = "returned" =>
                  /\ Len(results) = Len(urls)
                  /\ results[j] = NoneResult
                  /\ \A i \in 1..Len(urls) \ {j} :
                        results[i].kind = "response" /\ results[i].task = i

C2_Witness ==
    /\ ppc = "returned" /\ Len(urls) = 3 /\ n_jobs = 2 /\ inverted
    /\ TaskExhausted(2) /\ TaskSucceeded(1) /\ TaskSucceeded(3)
    /\ results[2] = NoneResult

\* the tasks whose download_url_with_retry is in progress
InProgress == {k \in 1..Len(urls) : trun[k].pc \in {"attempt", "sleep"}}

\* C23: at every moment of a run of parallel_download_urls with n_jobs >= 1,
\* the number of tasks whose download_url_with_retry is in progress is at most
\* n_jobs, however many URLs are still waiting.
C23_BoundedParallelism ==
    n_jobs >= 1 => Cardinality(InProgress) <= n_jobs

\* one worker, busy with the first task while two URLs wait
C23_Witness ==
    /\ n_jobs = 1
    /\ Cardinality(InProgress) = 1
    /\ Len(queue) >= 2

\* C25: while one task of parallel_download_urls sleeps in a backoff wait, with
\* n_jobs >= 2 another worker can still start a waiting task and complete the
\* attempt of another running task: the wait blocks only the worker of the
\* retrying task.
C25_SleepBlocksOneWorker ==
    \A k \in 1..Len(urls) :
        (ppc = "running" /\ n_jobs >= 2 /\ trun[k].pc = "sleep") =>
            /\ (queue # <<>> /\ Cardinality(running) < n_jobs) => ENABLED Dispatch
            /\ \A j \in running \ {k} :
                   trun[j].pc = "attempt" => ENABLED Attempt(j)

\* the first task sleeps after its first failure; meanwhile the other worker
\* has completed the second task and is at the third
C25_Witness ==
    /\ n_jobs = 2
    /\ Len(urls) = 3
    /\ trun[1].pc = "sleep" /\ trun[1].calls = 1
    /\ trun[2].pc = "done"
    /\ trun[3].pc = "attempt"

\* the Exception kinds the fetch can raise that download_url_with_retry does
\* not retry
C34_Kinds ==
    {x \in ArunRaises :
        /\ IsInstance(x, "Exception")
        /\ \A t \in RetryTypes("download_url_with_retry") : ~IsInstance(x, t)}

\* the task k has ended because an attempt of it raised one of these kinds
C34_Raised(k) ==
    trun[k].pc = "done" /\ trun[k].final \in C34_Kinds

\* C34: a task of parallel_download_urls whose fetch raises a non-retryable
\* Exception kind (ValueError) yields None at its own index at once: the
\* attempt that raised is its last (the only one when it is the first) and no
\* wait follows it; the call does not raise because of it, and every other
\* task keeps its own outcome at its own index.
C34_FatalIsNone ==
    /\ \A k \in 1..Len(urls) :
          C34_Raised(k) =>
             /\ trun[k].value = NoneResult
             /\ results[k] = NoneResult
             /\ trun[k].calls = trun[k].attempt_number
             /\ Len(trun[k].waits) = trun[k].calls - 1
             /\ \A j \in 1..Len(urls) \ {k} :
                   /\ trun[j].pc # "done" => results[j] = PendingSlot
                   /\ (trun[j].pc = "done" /\ trun[j].value.kind # "raise")
                         => results[j] = trun[j].value
    /\ ppc = "raised" =>
          \E k \in 1..Len(urls) :
              /\ trun[k].pc = "done" /\ trun[k].value.kind = "raise"
              /\ ~C34_Raised(k)

C34_Witness ==
    /\ ppc = "returned" /\ Len(urls) = 3 /\ n_jobs = 2
    /\ trun[2].pc = "done" /\ trun[2].final = "ValueError"
    /\ trun[2].calls = 1 /\ trun[2].waits = <<>>
    /\ results[2] = NoneResult
    /\ TaskSucceeded(1) /\ TaskSucceeded(3)
    /\ results[1].kind = "response" /\ results[3].kind = "response"

\* the attempts made so far by the tasks 1..k
RECURSIVE C36_Attempts(_)
C36_Attempts(k) == IF k = 0 THEN 0 ELSE trun[k].calls + C36_Attempts(k - 1)

\* where each task stands: waiting in the queue (once), with a worker, or done
C36_Placed ==
    /\ \A i, j \in 1..Len(queue) : queue[i] = queue[j] => i = j
    /\ \A k \in 1..Len(urls) :
          /\ trun[k].pc = "pending" <=> \E i \in 1..Len(queue) : queue[i] = k
          /\ trun[k].pc \in {"attempt", "sleep"} <=> k \in running
    /\ ndone = Cardinality({k \in 1..Len(urls) : trun[k].pc = "done"})

\* the call has ended by raising an error that is not an Exception, which one
\* of the attempts raised
C36_Interrupted ==
    /\ ppc = "raised"
    /\ \E k \in 1..Len(urls) :
          trun[k].pc = "done" /\ ~IsInstance(trun[k].final, "Exception")
                              /\ trun[k].final \notin {"none", "pending"}

\* C36: provided every fetch attempt terminates, parallel_download_urls ends
\* for every url list, by returning unless an attempt raised an error that is
\* not an Exception: each task ends after at most 6 attempts, the run makes at
\* most 6 * len(urls) attempts, and every task is started once and finished
\* once (a started task is never started again, a finished task never runs
\* again, and at the return every task has finished).
C36_Terminates ==
    /\ <>(ppc = "returned" \/ C36_Interrupted)
    /\ [](/\ \A k \in 1..Len(urls) : trun[k].calls <= 6
          /\ C36_Attempts(Len(urls)) <= 6 * Len(urls)
          /\ C36_Placed
          /\ ppc = "returned" => ndone = Len(urls))
    /\ [][\A k \in 1..Len(urls) :
             /\ trun[k].pc # "pending" => trun'[k].pc # "pending"
             /\ trun[k].pc = "done" => trun'[k] = trun[k]
             /\ trun'[k].pc = "done" /\ trun[k].pc # "done" => ndone' = ndone + 1
         ]_vars

C36_Witness ==
    /\ ppc = "returned" /\ Len(urls) = 2 /\ n_jobs = 2
    /\ TaskExhausted(1) /\ TaskExhausted(2)
    /\ C36_Attempts(2) = 12 /\ ndone = 2

(***************************************************************************)
(* Claims about the progress bar, checked under SpecProgress.              *)
(***************************************************************************)
\* C24: with progress reporting enabled, the progress counter of
\* parallel_download_urls is incremented exactly once for each task, whether
\* the task gave a response or None, however the workers interleave; when the
\* call returns the counter equals len(urls).
C24_OneUpdatePerTask ==
    ProgressEnabled(progress) =>
        /\ \A k \in 1..Len(urls) :
              /\ pupdates[k] <= 1
              /\ pstate[k] = "done" => pupdates[k] = 1
        /\ pbar = Cardinality({k \in 1..Len(urls) : pstate[k] = "done"})
        /\ ppc = "returned" => pbar = Len(urls)

\* a call of two workers and three URLs has returned, a task having ended as
\* None before the task given before it gave its response
C24_Witness ==
    /\ ProgressEnabled(progress)
    /\ ppc = "returned"
    /\ n_jobs = 2 /\ Len(urls) = 3
    /\ presults[1] = "response" /\ presults[2] = "None"
    /\ pbar = 3

(***************************************************************************)
(* Claims about the proxies of the tasks, checked under SpecProxy.         *)
(***************************************************************************)
\* the element proxies[i mod len(proxies)], as the ProxyConfig it stands for
C18_Element(i) ==
    LET item == proxies.pool[(i % Len(proxies.pool)) + 1] IN
    IF item = "203.0.113.7:8080" THEN "ProxyConfig(http://203.0.113.7:8080)" ELSE item

C35_ResolutionIsolated ==
    /\ ppc # "raised"
    /\ ppc = "tasks" => Len(tasks) = Len(urls)

(***************************************************************************)
(* Claims about the parsing of index responses, checked under SpecParse.   *)
(***************************************************************************)
DataRows(b) == Cardinality({i \in 1..Len(b.kinds) : b.kinds[i] = "data"})

\* C10: for every response body parsed by the index client (JSON or text) the
\* records of the CDXResponse are the data rows only: a resume-token row and a
\* blank separator row never become a record, so len(response) equals the
\* number of data rows of the body.
C10_RecordsAreDataRows ==
    parsed # <<>> => Len(parsed.records) = DataRows(body)

IsJson == parsed # <<>> /\ body.output = "json"
IsText == parsed # <<>> /\ body.output = "text"

\* C11: in JSON parsing a single-element row after the header is taken as
\* the resume key only when the response has more than one data row; with
\* zero or one data row no resume key is recognized.
C11_KeyOnlyWithSeveralDataRows ==
    IsJson => (parsed.resume_key # "" => DataRows(body) > 1)

\* the single-element rows after the header
C11_SingleCellRows == {i \in 2..Len(body.rows) : Len(body.rows[i]) = 1}

\* C11, as the code has it: a single-element row after the header is taken
\* as the resume key exactly when the decoded response has more than two rows
\* in all, the header and the blank and resume-key rows counted; in a
\* response of at most two rows such a row is a record and no resume key is
\* recognized.
C11_KeyWhenMoreThanTwoRows ==
    IsJson =>
        /\ Len(body.rows) > 2 =>
              /\ parsed.resume_key # "" <=> C11_SingleCellRows # {}
              /\ \A i \in C11_SingleCellRows :
                    (\A j \in C11_SingleCellRows : j <= i) =>
                        parsed.resume_key = body.rows[i][1]
        /\ Len(body.rows) <= 2 =>
              /\ parsed.resume_key = ""
              /\ Len(parsed.records) = Len(body.rows) - 1

C11_Witness ==
    /\ IsJson /\ DataRows(body) = 1 /\ Len(body.rows[1]) = 2
    /\ Len(body.rows) = 4
    /\ parsed.resume_key = "com%2Cx%29%2F+2020"
    /\ Len(parsed.records) = 1

\* the rows after the header that have as many cells as the header
C12_FullRows ==
    SelectSeq(Tail(body.rows), LAMBDA row : Len(row) = Len(body.rows[1]))

\* C12: in JSON parsing every row after the header whose length equals the
\* number of header fields becomes exactly one record, in response order,
\* for every number of fields, a one-field selection included.
C12_EveryFullRowIsARecord ==
    IsJson => parsed.records = C12_FullRows

\* a non-empty line with a '%' escape and no whitespace character
C13_KeyLine(line) ==
    /\ \E i \in 1..Len(line) : line[i] \in PctTokens
    /\ \A i \in 1..Len(line) : line[i] \notin Whitespace

\* the records and the resume key that the claim C13 gives for the lines
\* from i on
RECURSIVE C13_Expected(_, _, _)
C13_Expected(lines, i, acc) ==
    IF i > Len(lines) THEN acc
    ELSE IF lines[i] = <<>> THEN C13_Expected(lines, i + 1, acc)
    ELSE IF C13_KeyLine(lines[i])
         THEN C13_Expected(lines, i + 1, [acc EXCEPT !.resume_key = lines[i][1]])
         ELSE C13_Expected(lines, i + 1,
                  [acc EXCEPT !.records =
                       Append(@, from_list(split(lines[i]), acc.field_names))])

\* C13: in text parsing a non-empty line is the resume key, and not a
\* record, exactly when it contains a '%' escape and no whitespace character;
\* every other non-empty line becomes a record whose field names are the fl
\* selection if given, else the default 7 fields.
C13_TextKeyLines ==
    IsText =>
        LET expected ==
                C13_Expected(body.rows, 1,
                    [records |-> <<>>,
                     field_names |-> IF body.fl # <<>> THEN body.fl ELSE DEFAULT_FIELDS,
                     resume_key |-> ""])
        IN /\ parsed.records = expected.records
           /\ parsed.resume_key = expected.resume_key
           /\ parsed.records # <<>> => parsed.field_names = expected.field_names

(***************************************************************************)
(* Claims about CDXClient.search, checked under SpecSearch.                *)
(***************************************************************************)
\* the GET was answered with an HTTP error status
HttpErrorStatus ==
    /\ http # <<>> /\ http.raises = "none"
    /\ 400 <= http.status_code /\ http.status_code < 600

\* C14: when the index service answers a search with an HTTP error status
\* (4xx or 5xx), search raises CDXError whose status_code is that status;
\* status_code is None only when no HTTP status is known.
C14_ErrorCarriesStatus ==
    (spc = "raised" /\ HttpErrorStatus) =>
        /\ sout.exc = "CDXError"
        /\ sout.status_code = http.status_code

\* the three failures of a search that the claim C15 names
C15_Failure ==
    /\ http # <<>>
    /\ \/ HttpErrorStatus
       \/ http.raises = "RequestException"
       \/ /\ http.raises = "none" /\ sargs.output = "json" /\ http.text = "garbage"

\* C15: every failure of CDXClient.search (an HTTP error status, a transport
\* failure, a body that is not well-formed JSON when JSON was requested)
\* reaches the caller as CDXError and as no other kind of exception.
C15_FailuresAreCDXError ==
    C15_Failure => (spc = "raised" /\ sout.exc = "CDXError")

C15_Witness ==
    /\ spc = "raised" /\ sout.exc = "CDXError"
    /\ http.raises = "none" /\ http.status_code = 200 /\ http.text = "garbage"
    /\ sargs.output = "json"

\* the entries of the query string that have this key, in order
EntriesOf(k) == SelectSeq(query_params, LAMBDA q : q[1] = k)

\* C16: each call of CDXClient.search issues exactly one HTTP GET, and in its
\* query string every list-valued parameter (filter, collapse) of n elements
\* is n entries with that key, one per element and in list order, never one
\* comma-joined entry.
C16_OneGetRepeatedKeys ==
    /\ spc = "call" => gets = 0
    /\ spc \in {"sent", "returned", "raised"} =>
          /\ gets = 1
          /\ EntriesOf("filter") =
                [i \in 1..Len(sargs.filters) |-> <<"filter", <<sargs.filters[i]>>>>]
          /\ EntriesOf("collapse") =
                [i \in 1..Len(sargs.collapse) |-> <<"collapse", <<sargs.collapse[i]>>>>]

C16_Witness ==
    /\ spc = "returned" /\ gets = 1
    /\ sargs.filters = <<"statuscode:200", "!mimetype:text/html">>
    /\ sargs.collapse = <<"digest", "timestamp:4">>
    /\ EntriesOf("filter") = <<<<"filter", <<"statuscode:200">>>>,
                               <<"filter", <<"!mimetype:text/html">>>>>>
    /\ EntriesOf("collapse") = <<<<"collapse", <<"digest">>>>,
                                 <<"collapse", <<"timestamp:4">>>>>>

(***************************************************************************)
(* Claims about CDXClient.iter_pages, checked under SpecPages.             *)
(***************************************************************************)
\* C17: iter_pages first issues one page-count query; when that query
\* returns num_pages it issues exactly one search per page index 0, 1, ...,
\* num_pages - 1, in ascending order, and yields one response per page; with
\* num_pages = 0 it issues no search and yields nothing.
C17_OneSearchPerPage ==
    /\ pgpc = "count" => pglog = <<>>
    /\ pglog # <<>> => pglog[1].kind = "numpages"
    /\ \A k \in 2..Len(pglog) : pglog[k].kind = "search" /\ pglog[k].page = k - 2
    /\ Len(pgyielded) <= Len(pglog)
    /\ \A i \in 1..Len(pgyielded) : pgyielded[i].page = i - 1
    /\ pgpc = "loop" => Len(pgyielded) = Len(pglog) - 1
    /\ pgpc = "done" =>
          /\ Len(pglog) = 1 + Max(num_pages, 0)
          /\ Len(pgyielded) = Max(num_pages, 0)
          /\ num_pages = 0 => (Len(pglog) = 1 /\ pgyielded = <<>>)

C17_Witness ==
    /\ pgpc = "done" /\ num_pages = 3
    /\ Len(pglog) = 4 /\ pglog[2].page = 0 /\ pglog[3].page = 1 /\ pglog[4].page = 2
    /\ Len(pgyielded) = 3 /\ pgyielded[3].page = 2

\* the page-count query has failed: it is the only request issued and the
\* generator has ended with an error
C31_CountFailed ==
    /\ Len(pglog) = 1
    /\ pgpc \notin {"count", "loop", "done"}

\* C31: if the page-count query of iter_pages fails (HTTP error, transport
\* failure, or a body that is not an integer), the failure reaches the caller
\* as CDXError on the first iteration step and no page search is issued.
C31_CountFailureIsCDXError ==
    C31_CountFailed =>
        /\ pgpc = "CDXError"
        /\ pglog[1].kind = "numpages"
        /\ pgyielded = <<>>

(***************************************************************************)
(* Claims about get_wayback_metadata, checked under SpecMeta.              *)
(***************************************************************************)
\* the timestamp of a record of the response (the second default field)
C19_Timestamp(record) == record[2]

\* the timestamps of these records that are not empty, in order
RECURSIVE C19_NonEmpty(_)
C19_NonEmpty(records) ==
    IF records = <<>> THEN <<>>
    ELSE (IF C19_Timestamp(Head(records)) # ""
          THEN <<C19_Timestamp(Head(records))>> ELSE <<>>)
         \o C19_NonEmpty(Tail(records))

\* C19: get_wayback_metadata drops every record whose timestamp is empty and
\* keeps every other record: snapshots is the order-preserving subsequence of
\* the response records with a non-empty timestamp, and snapshots_count is
\* its length.
C19_DropsEmptyTimestamps ==
    mpc = "returned" =>
        /\ [i \in 1..Len(result.snapshots) |-> result.snapshots[i].timestamp]
              = C19_NonEmpty(mresp.records)
        /\ result.snapshots_count = Len(result.snapshots)
        /\ result.snapshots_count = Len(C19_NonEmpty(mresp.records))

C19_Witness ==
    /\ mpc = "returned"
    /\ Len(mresp.records) = 3
    /\ C19_Timestamp(mresp.records[1]) = "20210101000000"
    /\ C19_Timestamp(mresp.records[2]) = ""
    /\ C19_Timestamp(mresp.records[3]) = "20200101000000"
    /\ result.snapshots_count = 2
    /\ result.snapshots[1].timestamp = "20210101000000"
    /\ result.snapshots[2].timestamp = "20200101000000"

\* C20: in every result of get_wayback_metadata oldest is the first and
\* latest the last element of the snapshots of that result, and both are None
\* exactly when snapshots is empty: no value is carried over from an earlier
\* call.
C20_OldestLatest ==
    mpc = "returned" =>
        /\ result.snapshots # <<>> =>
              /\ result.oldest = result.snapshots[1]
              /\ result.latest = result.snapshots[Len(result.snapshots)]
        /\ result.snapshots = <<>> <=> result.oldest = [none |-> TRUE]
        /\ result.snapshots = <<>> <=> result.latest = [none |-> TRUE]

C20_Witness ==
    /\ mpc = "returned" /\ mcalls = 2 /\ mearlier
    /\ result.snapshots = <<>>
    /\ result.latest = [none |-> TRUE] /\ result.oldest = [none |-> TRUE]

\* the url without the whitespace at its ends: from its first to its last
\* piece that is not whitespace
C27_Blank == {" ", "\t", "\n", "\r"}
C27_Stripped(url) ==
    LET inner == {i \in 1..Len(url) : url[i] \notin C27_Blank} IN
    IF inner = {} THEN <<>>
    ELSE SubSeq(url, CHOOSE i \in inner : \A j \in inner : i <= j,
                     CHOOSE i \in inner : \A j \in inner : i >= j)
\* the normalized url: stripped, "https://" in front when it has no http://
\* or https:// scheme
C27_Normalized(url) ==
    LET u == C27_Stripped(url) IN
    IF u # <<>> /\ u[1] \in {"http://", "https://"} THEN u ELSE <<"https://">> \o u

\* C27: every snapshot in a result of get_wayback_metadata has wayback_url =
\* https://web.archive.org/web/{timestamp}/{normalized_url}, the timestamp
\* being that of its record and normalized_url the url argument stripped of
\* the whitespace around it, with https:// in front when it has no http:// or
\* https:// scheme.
C27_WaybackUrl ==
    mpc = "returned" =>
        /\ Len(result.snapshots) = Len(C19_NonEmpty(mresp.records))
        /\ \A i \in 1..Len(result.snapshots) :
              result.snapshots[i].wayback_url =
                  <<"https://web.archive.org/web/", C19_NonEmpty(mresp.records)[i], "/">>
                      \o C27_Normalized(murl)

\* snapshots of a url given with blanks around it and no scheme, and of a url
\* given with its scheme: here the first
C27_Witness ==
    /\ mpc = "returned"
    /\ murl = <<" ", "example.com", " ">>
    /\ Len(result.snapshots) = 2
    /\ result.snapshots[2].wayback_url =
          <<"https://web.archive.org/web/", "20210101000000", "/", "https://", "example.com">>

(***************************************************************************)
(* Claims about CDXClient.iter_all, checked under SpecIter.                *)
(***************************************************************************)
\* a response with no resume key or with fewer than batch_size records
C8_Stopping(resp) == resp.resume_key = "" \/ Len(resp.records) < batch_size

\* the records of the responses h[1..n], concatenated
RECURSIVE RecordsUpTo(_, _)
RecordsUpTo(h, n) == IF n = 0 THEN <<>> ELSE RecordsUpTo(h, n - 1) \o h[n].records

\* the service sent batch_size records and a resume key in each of its first
\* n answers and fewer than batch_size records and no key in answer n+1
C8_FullThenShort(n) ==
    /\ \A k \in 1..n : service[k].n = batch_size /\ service[k].key # ""
    /\ service[n + 1].n < batch_size /\ service[n + 1].key = ""

\* C8: iter_all stops after the first response that has no resume key or
\* fewer than batch_size records and yields exactly the concatenation, in
\* order, without loss or duplication, of the records of all responses up to
\* that one; for a service that returns batch_size records plus a resume key
\* on calls 1..n and then r < batch_size records with no key, it yields
\* n*batch_size + r records with exactly n+1 service calls.
C8_IterStopsAndConcatenates ==
    /\ ipc = "search" => \A k \in 1..Len(history) : ~C8_Stopping(history[k])
    /\ ipc = "done" =>
          /\ C8_Stopping(history[Len(history)])
          /\ \A k \in 1..(Len(history) - 1) : ~C8_Stopping(history[k])
          /\ yielded = RecordsUpTo(history, Len(history))
          /\ \A i, j \in 1..Len(yielded) : i # j => yielded[i] # yielded[j]
          /\ \A n \in 0..(Len(service) - 1) :
                C8_FullThenShort(n) =>
                    /\ Len(yielded) = n * batch_size + service[n + 1].n
                    /\ Len(searches) = n + 1

\* C9: the first search of iter_all carries no resume key, every later search
\* k+1 carries exactly the resume key that response k returned, and every
\* search is issued with showResumeKey=true and limit=batch_size.
C9_ResumeKeyThreaded ==
    \A k \in 1..Len(searches) :
        /\ "showResumeKey" \in DOMAIN searches[k]
        /\ searches[k]["showResumeKey"] = "true"
        /\ searches[k]["limit"] = batch_size
        /\ k = 1 => "resumeKey" \notin DOMAIN searches[k]
        /\ k > 1 => /\ "resumeKey" \in DOMAIN searches[k]
                    /\ searches[k]["resumeKey"] = history[k - 1].resume_key
                    /\ searches[k]["resumeKey"] = service[k - 1].key

C9_Witness ==
    /\ Len(searches) = 3 /\ Len(history) = 3
    /\ "resumeKey" \notin DOMAIN searches[1]
    /\ searches[2]["resumeKey"] = "com%2Cx%29%2F+2020"
    /\ history[1].resume_key = "com%2Cx%29%2F+2020"
    /\ searches[3]["resumeKey"] = "com%2Cx%29%2F+2021"
    /\ history[2].resume_key = "com%2Cx%29%2F+2021"

\* how many records the responses received so far hold
RECURSIVE C32_Received(_)
C32_Received(h) ==
    IF h = <<>> THEN 0 ELSE Len(Head(h).records) + C32_Received(Tail(h))

\* C32: iter_all is lazy: no search is issued before the caller asks for the
\* first record, the search for the next batch is issued only after the caller
\* has taken every record of the batches before it and asks for one more, and
\* a caller that stops asking causes no further call of the service.
C32_Lazy ==
    [][ /\ searches' # searches =>
              /\ consumer = "waiting"
              /\ nexts >= 1
              /\ nexts = Len(yielded) + 1
              /\ Len(yielded) = C32_Received(history)
        /\ nexts' = 0 => searches' = <<>>
        /\ consumer = "stopped" => (searches' = searches /\ yielded' = yielded)
      ]_vars

\* the caller has taken the two records of the first batch and one of the
\* second, and stopped: two searches, although the service has more
C32_Witness ==
    /\ consumer = "stopped"
    /\ batch_size = 2
    /\ Len(searches) = 2
    /\ Len(yielded) = 3
    /\ Len(response.records) = 2 /\ response.resume_key # ""

(***************************************************************************)
(* Claims about convert_to_id_url, checked under SpecUrl.                  *)
(***************************************************************************)
\* a timestamp of exactly 14 digits
C21_Timestamp(t) == Len(t) = 14 /\ \A i \in 1..Len(t) : t[i] \in Digits
\* the modes the claim names: no mode, raw, if_, js_
C21_Modes == {<<>>, <<"r", "a", "w">>, <<"i", "f", "_">>, <<"j", "s", "_">>}
\* a target that is a URL: not empty, on one line
C21_Url(u) == Len(u) > 0 /\ \A i \in 1..Len(u) : u[i] # "\n"
\* the input is https://web.archive.org/web/{T}{mode}/{U}
C21_ArchiveUrl ==
    /\ built.head = <<ArchivePrefix>>
    /\ C21_Timestamp(built.timestamp)
    /\ built.mode \in C21_Modes
    /\ built.slash = <<"/">>
    /\ C21_Url(built.target_url)

\* C21: for every 14-digit timestamp T and every URL U, converting the archive
\* URL https://web.archive.org/web/{T}{mode}/{U} of another mode (no mode, raw,
\* if_, js_) gives exactly build_archive_url(T, U).
C21_ConvertIsBuild ==
    (upc # "call" /\ C21_ArchiveUrl) =>
        /\ upc = "returned"
        /\ id_url.exc = "none"
        /\ id_url.value = build_archive_url(built.timestamp, built.target_url)

\* an if_ archive URL has been converted
C21_Witness ==
    /\ upc = "returned"
    /\ C21_ArchiveUrl
    /\ built.mode = <<"i", "f", "_">>
    /\ built.timestamp = ExampleTimestamp
    /\ id_url.value # wayback_url

\* the digits that follow the fixed beginning
C22_LeadingDigits(url) == RunEnd(url, 2, Digits) - 2
\* the timestamp segment is not exactly 14 digits
C22_BadTimestamp ==
    /\ Len(wayback_url) > 0 /\ wayback_url[1] = ArchivePrefix
    /\ C22_LeadingDigits(wayback_url) # 14
\* the input has not the shape of an archive URL: another beginning, no "/"
\* after the timestamp and mode, or nothing after that "/"
C22_NotArchiveShape ==
    \/ Len(wayback_url) = 0
    \/ wayback_url[1] # ArchivePrefix
    \/ \A i \in 2..Len(wayback_url) : wayback_url[i] # "/"
    \/ wayback_url[Len(wayback_url)] = "/"
          /\ \A i \in 2..(Len(wayback_url) - 1) : wayback_url[i] # "/"

\* C22: convert_to_id_url fails with the invalid-URL-format error (ValueError
\* "Invalid Wayback URL format") and returns nothing for every input whose
\* timestamp segment is not exactly 14 digits and for every input that has not
\* the shape of an archive URL; it never rewrites such an input.
C22_InvalidInputRaises ==
    (upc # "call" /\ (C22_BadTimestamp \/ C22_NotArchiveShape)) =>
        /\ upc = "raised"
        /\ id_url.exc = "ValueError"
        /\ id_url.value = <<>>

\* a well-formed archive URL but for its 15-digit timestamp has been refused
C22_Witness ==
    /\ upc = "raised"
    /\ built.head = <<ArchivePrefix>>
    /\ built.timestamp = ExampleTimestamp \o <<"0">>
    /\ built.mode = <<"i", "f", "_">>
    /\ built.slash = <<"/">>
    /\ C21_Url(built.target_url)
    /\ id_url.exc = "ValueError"

\* the input is an archive URL that is in id_ mode already
C37_IdUrl ==
    /\ built.head = <<ArchivePrefix>>
    /\ C21_Timestamp(built.timestamp)
    /\ built.mode = <<"i", "d", "_">>
    /\ built.slash = <<"/">>
    /\ C21_Url(built.target_url)

\* C37: convert_to_id_url is idempotent on every input it accepts: its output
\* is accepted again and converting the output gives the output itself; an
\* archive URL that is in id_ mode already is returned unchanged.
C37_Idempotent ==
    /\ id_again # NotConverted =>
          /\ id_again.exc = "none"
          /\ id_again.value = id_url.value
    /\ (upc = "returned" /\ C37_IdUrl) => id_url.value = wayback_url

\* an if_ archive URL has been converted, and its conversion converted again
C37_Witness ==
    /\ upc = "returned"
    /\ C21_ArchiveUrl
    /\ built.mode = <<"i", "f", "_">>
    /\ id_url.value # wayback_url
    /\ id_again.exc = "none"
    /\ id_again.value = id_url.value

(***************************************************************************)
(* Claims about the CDXQuery builder, checked under SpecQuery.             *)
(***************************************************************************)
\* the arguments of every call of `method` made on the query, in call order
RECURSIVE C33_Supplied(_, _)
C33_Supplied(cs, method) ==
    IF cs = <<>> THEN <<>>
    ELSE (IF Head(cs).method = method THEN Head(cs).args ELSE <<>>)
         \o C33_Supplied(Tail(cs), method)

\* the elements of `a` occur in `b` in the same order
RECURSIVE C33_InOrder(_, _)
C33_InOrder(a, b) ==
    IF a = <<>> THEN TRUE
    ELSE IF b = <<>> THEN FALSE
    ELSE IF Head(a) = Head(b) THEN C33_InOrder(Tail(a), Tail(b))
    ELSE C33_InOrder(a, Tail(b))

C33_Value(d, k) == IF k \in DOMAIN d THEN d[k] ELSE <<>>

\* C33: after any sequence of filter (collapse) calls on one query, the built
\* parameters contain every filter (collapse spec) supplied by all of those calls,
\* in call order.
C33_CallsAdd ==
    qpc = "built" =>
        \A method \in {"filter", "collapse"} :
            C33_InOrder(C33_Supplied(qcalls, method), C33_Value(qbuilt, method))

\* what the code does hold: the built value of each key is the argument list of
\* the last call of its method
C33_LastCallWins ==
    qpc = "built" =>
        \A method \in {"filter", "collapse"} :
            \A i \in 1..Len(qcalls) :
                (/\ qcalls[i].method = method
                 /\ \A j \in (i + 1)..Len(qcalls) : qcalls[j].method # method)
                => C33_Value(qbuilt, method) = qcalls[i].args

=============================================================================
